---- MODULE Spec2Model ----
(***************************************************************************)
(* A model of ComputerVMKS.ino, the interpreter of a small Forth dialect:  *)
(* the word reader over the line buffer, the resolver (parseWord), the     *)
(* definition compiler (execWordStage1) with its back-patching, the        *)
(* threaded executor (execWordStage2), the three bounded stacks, the       *)
(* sticky error register and the driver (loop).  The keyboard, the display *)
(* and the buzzer are left out; what is printed is collected in `out'.     *)
(***************************************************************************)
EXTENDS Integers, Sequences, FiniteSets, TLC

(***************************************************************************)
(* Program constants.                                                      *)
(***************************************************************************)
BUFFER_SIZE == 64
STACK_SIZE == 50
DEF_STACK_SIZE == 10
IDX_STACK_SIZE == DEF_STACK_SIZE * 2
NULL == 0

(***************************************************************************)
(* Bounds of the model.                                                    *)
(***************************************************************************)
\* the number of input lines the user types
MaxLines == 3

(***************************************************************************)
(* errorTypes                                                              *)
(***************************************************************************)
NO_ERROR == "NO_ERROR"
STACK_OVERFLOW == "STACK_OVERFLOW"
STACK_UNDERFLOW == "STACK_UNDERFLOW"
STACK_ERROR == "STACK_ERROR"
INPUT_ERROR == "INPUT_ERROR"
EXPECTED_WORD == "EXPECTED_WORD"
EXPECTED_QUOTE == "EXPECTED_QUOTE"
RECURSIVE_WORD_DEFINITION == "RECURSIVE_WORD_DEFINITION"
LONE_THEN == "LONE_THEN"
OUTSIDE_WORD_DEFINITION == "OUTSIDE_WORD_DEFINITION"
UNRECOGNIZED_WORD == "UNRECOGNIZED_WORD"
INVALID_CONSTRUCTION == "INVALID_CONSTRUCTION"
LONE_LOOP == "LONE_LOOP"
DIVISION_BY_ZERO == "DIVISION_BY_ZERO"
NODE_NULL_IN_IF == "NODE_NULL_IN_IF"

(***************************************************************************)
(* Characters are one-character strings; NUL is the C string terminator.   *)
(***************************************************************************)
NUL == ""
SPACE == " "
TAB == "\t"
QUOTE == "\""

DigitChars == <<"0", "1", "2", "3", "4", "5", "6", "7", "8", "9">>

isdigit(c) == \E d \in 1..10 : DigitChars[d] = c

DigitVal(c) == (CHOOSE d \in 1..10 : DigitChars[d] = c) - 1

\* a native int is 16 bits wide: arithmetic wraps
Wrap16(x) == ((x + 32768) % 65536) - 32768

\* the characters of buffer[s], ..., buffer[e-1]
Tok(buf, s, e) == [k \in 1..(e - s) |-> buf[s + k - 1]]

\* a character array read as a C string: the characters before the first NUL
RECURSIVE CStr(_)
CStr(t) ==
  IF t = <<>> \/ Head(t) = NUL THEN <<>> ELSE <<Head(t)>> \o CStr(Tail(t))

\* compare(s1, s_idx, e_idx), s1 a C string
compare(s1, buf, s_idx, e_idx) ==
  /\ e_idx - s_idx = Len(s1)
  /\ Tok(buf, s_idx, e_idx) = s1

\* the first index from i on that holds no space or tab, or e
RECURSIVE SkipBlanks(_, _, _)
SkipBlanks(buf, i, e) ==
  IF i < e /\ buf[i] \in {SPACE, TAB} THEN SkipBlanks(buf, i + 1, e) ELSE i

\* the first index from i on that holds a space or a tab, or e
RECURSIVE SkipWord(_, _, _)
SkipWord(buf, i, e) ==
  IF i < e /\ buf[i] \notin {SPACE, TAB} THEN SkipWord(buf, i + 1, e) ELSE i

\* the first index from i on that holds a double quote, or e
RECURSIVE SkipToQuote(_, _, _)
SkipToQuote(buf, i, e) ==
  IF i < e /\ buf[i] # QUOTE THEN SkipToQuote(buf, i + 1, e) ELSE i

\* sprintf("%d", n)
RECURSIVE DecDigits(_)
DecDigits(n) ==
  IF n < 10 THEN <<DigitChars[n + 1]>>
  ELSE Append(DecDigits(n \div 10), DigitChars[(n % 10) + 1])

Dec(n) == IF n < 0 THEN <<"-">> \o DecDigits(0 - n) ELSE DecDigits(n)

\* the glyph of a character code (EMIT); codes 32..95
Ascii ==
  <<" ", "!", "\"", "#", "$", "%", "&", "'", "(", ")", "*", "+", ",", "-",
    ".", "/", "0", "1", "2", "3", "4", "5", "6", "7", "8", "9", ":", ";",
    "<", "=", ">", "?", "@", "A", "B", "C", "D", "E", "F", "G", "H", "I",
    "J", "K", "L", "M", "N", "O", "P", "Q", "R", "S", "T", "U", "V", "W",
    "X", "Y", "Z", "[", "\\", "]", "^", "_">>

Glyph(code) ==
  LET c == code % 256
  IN  IF c >= 32 /\ c <= 95 THEN Ascii[c - 31] ELSE "?"

(***************************************************************************)
(* The program's state.                                                    *)
(***************************************************************************)
VARIABLES
  buffer,            \* char buffer[BUFFER_SIZE]
  b_idx,             \* the read position in buffer
  b_end,             \* the end of the line in buffer
  errorCode,         \* the sticky error register
  stack,             \* int stack[STACK_SIZE]
  top,               \* first free location of stack
  defStack,          \* wordType defStack[DEF_STACK_SIZE]
  defTop,            \* first free location of defStack
  idxStack,          \* int idxStack[IDX_STACK_SIZE]
  idxTop,            \* first free location of idxStack
  s_list,            \* the string list, in order of creation
  inWordDefinition,  \* between a colon and its semicolon
  wordList,          \* the defined words, the most recent first
  heap,              \* every wordNode ever allocated: [type, wa, next]
  live,              \* the wordNodes allocated and not freed
  word,              \* loop(): word_t _word
  idx,               \* loop(): int idx
  startNode,         \* execWordStage1, case COLON: the body under construction
  node,              \* execWordStage1, case COLON: its last node
  wordName,          \* execWordStage1, case COLON: the name being defined
  cs,                \* the activations of execWordStage2 that run a loop
  pc,                \* the driver's position
  out,               \* the characters printed so far
  errLog,            \* the assignments of a fault to errorCode in this cycle
  nread              \* the number of lines read so far

vars ==
  <<buffer, b_idx, b_end, errorCode, stack, top, defStack, defTop, idxStack,
    idxTop, s_list, inWordDefinition, wordList, heap, live, word, idx,
    startNode, node, wordName, cs, pc, out, errLog, nread>>

\* the state the operations below read and write, as one record
Cur ==
  [buffer |-> buffer, b_idx |-> b_idx, b_end |-> b_end,
   errorCode |-> errorCode, stack |-> stack, top |-> top,
   defStack |-> defStack, defTop |-> defTop, idxStack |-> idxStack,
   idxTop |-> idxTop, s_list |-> s_list,
   inWordDefinition |-> inWordDefinition, wordList |-> wordList,
   heap |-> heap, live |-> live, idx |-> idx, out |-> out,
   errLog |-> errLog]

Commit(m) ==
  /\ buffer' = m.buffer
  /\ b_idx' = m.b_idx
  /\ b_end' = m.b_end
  /\ errorCode' = m.errorCode
  /\ stack' = m.stack
  /\ top' = m.top
  /\ defStack' = m.defStack
  /\ defTop' = m.defTop
  /\ idxStack' = m.idxStack
  /\ idxTop' = m.idxTop
  /\ s_list' = m.s_list
  /\ inWordDefinition' = m.inWordDefinition
  /\ wordList' = m.wordList
  /\ heap' = m.heap
  /\ live' = m.live
  /\ idx' = m.idx
  /\ out' = m.out
  /\ errLog' = m.errLog

\* errorCode = e
Fail(m, e) == [m EXCEPT !.errorCode = e, !.errLog = Append(@, e)]

(***************************************************************************)
(* The int stack.  A C function that returns a value and changes the state *)
(* is two operators: ...V its value, ...S the state it leaves.             *)
(***************************************************************************)
\* push() with the full stack found one value too late
pushLate(m, value) ==
  IF m.errorCode # NO_ERROR THEN m
  ELSE IF m.top > STACK_SIZE THEN Fail(m, STACK_OVERFLOW)
  ELSE [m EXCEPT !.stack[m.top] = value, !.top = m.top + 1]

push(m, value) ==
  IF m.errorCode # NO_ERROR THEN m
  ELSE IF m.top >= STACK_SIZE THEN Fail(m, STACK_OVERFLOW)
  ELSE [m EXCEPT !.stack[m.top] = value, !.top = m.top + 1]

discard(m, count) ==
  IF m.errorCode # NO_ERROR THEN m
  ELSE IF m.top < count THEN Fail(m, STACK_UNDERFLOW)
  ELSE [m EXCEPT !.top = m.top - count]

peekS(m, i) ==
  IF m.errorCode # NO_ERROR THEN m
  ELSE IF m.top - i < 0 THEN Fail(m, STACK_UNDERFLOW)
  ELSE IF m.top - i >= STACK_SIZE THEN Fail(m, STACK_OVERFLOW)
  ELSE m

peekV(m, i) ==
  IF m.errorCode # NO_ERROR THEN 1
  ELSE IF m.top - i < 0 THEN 1
  ELSE IF m.top - i >= STACK_SIZE THEN 1
  ELSE m.stack[m.top - i]

popS(m) ==
  IF m.errorCode # NO_ERROR THEN m
  ELSE IF m.top <= 0 THEN Fail(m, STACK_UNDERFLOW)
  ELSE [m EXCEPT !.top = m.top - 1]

popV(m) ==
  IF m.errorCode # NO_ERROR THEN 1
  ELSE IF m.top <= 0 THEN 1
  ELSE m.stack[m.top - 1]

\* a write at or above stack[STACK_SIZE] is outside the array: the model
\* stores nothing there
poke(m, i, val) ==
  IF m.errorCode # NO_ERROR THEN m
  ELSE IF m.top - i < 0 THEN Fail(m, STACK_ERROR)
  ELSE IF m.top - i >= STACK_SIZE THEN m
  ELSE [m EXCEPT !.stack[m.top - i] = val]

(***************************************************************************)
(* The construction stack (defStack).                                      *)
(***************************************************************************)
defPush(m, value) ==
  IF m.errorCode # NO_ERROR THEN m
  ELSE IF m.defTop >= DEF_STACK_SIZE THEN Fail(m, STACK_OVERFLOW)
  ELSE [m EXCEPT !.defStack[m.defTop] = value, !.defTop = m.defTop + 1]

defDiscard(m) ==
  IF m.errorCode # NO_ERROR THEN m
  ELSE IF m.defTop <= 0 THEN Fail(m, STACK_UNDERFLOW)
  ELSE [m EXCEPT !.defTop = m.defTop - 1]

defPeekS(m) ==
  IF m.errorCode # NO_ERROR THEN m
  ELSE IF m.defTop < 1 \/ m.defTop >= STACK_SIZE THEN Fail(m, STACK_ERROR)
  ELSE m

defPeekV(m) ==
  IF m.errorCode # NO_ERROR THEN "INTEGER"
  ELSE IF m.defTop < 1 \/ m.defTop >= STACK_SIZE THEN "INTEGER"
  ELSE m.defStack[m.defTop - 1]

defHas(m, type) == \E i \in 0..(m.defTop - 1) : m.defStack[i] = type

(***************************************************************************)
(* The loop index stack (idxStack): two integers a loop, limit and counter.*)
(***************************************************************************)
\* idxPush() with the full stack found one value too late
idxPushLate(m, value) ==
  IF m.errorCode # NO_ERROR THEN m
  ELSE IF m.idxTop > IDX_STACK_SIZE THEN Fail(m, STACK_OVERFLOW)
  ELSE [m EXCEPT !.idxStack[m.idxTop] = value, !.idxTop = m.idxTop + 1]

idxPush(m, value) ==
  IF m.errorCode # NO_ERROR THEN m
  ELSE IF m.idxTop >= IDX_STACK_SIZE THEN Fail(m, STACK_OVERFLOW)
  ELSE [m EXCEPT !.idxStack[m.idxTop] = value, !.idxTop = m.idxTop + 1]

\* never called; it lowers defTop, not idxTop
idxDiscard(m) ==
  IF m.errorCode # NO_ERROR THEN m
  ELSE IF m.idxTop < 2 THEN Fail(m, STACK_UNDERFLOW)
  ELSE [m EXCEPT !.defTop = m.defTop - 2]

idxPeekS(m, off) ==
  IF m.errorCode # NO_ERROR THEN m
  ELSE IF m.idxTop - off < 0 THEN Fail(m, STACK_ERROR)
  ELSE m

idxPeekV(m, off) ==
  IF m.errorCode # NO_ERROR THEN 0
  ELSE IF m.idxTop - off < 0 THEN 0
  ELSE m.idxStack[m.idxTop - off]

idxIncr(m) ==
  IF m.errorCode # NO_ERROR THEN m
  ELSE IF m.idxTop <= 0 THEN Fail(m, STACK_UNDERFLOW)
  ELSE [m EXCEPT !.idxStack[m.idxTop - 1] = Wrap16(@ + 1)]

(***************************************************************************)
(* The word reader.  expectWord and readWord return the end of the word;   *)
(* every caller stores it in idx, and so do the operators.                 *)
(***************************************************************************)
expectWord(m) ==
  IF m.errorCode # NO_ERROR THEN [m EXCEPT !.idx = m.b_idx]
  ELSE LET i == SkipBlanks(m.buffer, m.b_idx, m.b_end)
       IN  IF m.b_idx >= m.b_end
           THEN [Fail(m, EXPECTED_WORD) EXCEPT !.idx = i]
           ELSE [m EXCEPT !.b_idx = i,
                          !.idx = SkipWord(m.buffer, i + 1, m.b_end)]

\* readWord once input() has a line with a word left in it
readWord(m) ==
  LET i == SkipBlanks(m.buffer, m.b_idx, m.b_end)
  IN  [m EXCEPT !.b_idx = i, !.idx = SkipWord(m.buffer, i + 1, m.b_end)]

\* getIn() has stored a line and its terminator; input() sets b_idx, b_end
input(m, line) ==
  [m EXCEPT !.buffer = [k \in 0..(BUFFER_SIZE - 1) |->
                          IF k < Len(line) THEN line[k + 1]
                          ELSE IF k = Len(line) THEN NUL
                          ELSE m.buffer[k]],
            !.b_idx = 0,
            !.b_end = Len(line)]

\* printStringD(str): the characters up to the terminator go to the display
printStringD(m, str) == [m EXCEPT !.out = @ \o CStr(str)]

\* sprintf(buffer, ...): the text and its terminator overwrite the buffer
sprintf(m, text) ==
  [m EXCEPT !.buffer = [k \in 0..(BUFFER_SIZE - 1) |->
                          IF k < Len(text) THEN text[k + 1]
                          ELSE IF k = Len(text) THEN NUL
                          ELSE m.buffer[k]]]

(***************************************************************************)
(* The resolver.  A word_t is [type, wa]; wa holds the int, the string     *)
(* (its place in s_list) or the node of the union workingArea.             *)
(***************************************************************************)
BuiltIns ==
  << <<<<".">>, "DOT">>,
     <<<<"+">>, "PLUS">>,
     <<<<"-">>, "MINUS">>,
     <<<<"*">>, "MULTIPLY">>,
     <<<<"/">>, "DIVIDE">>,
     <<<<".", "\"">>, "PRINT_S">>,
     <<<<":">>, "COLON">>,
     <<<<";">>, "SEMICOLON">>,
     <<<<".", "S">>, "PRINT_STACK">>,
     <<<<"I", "F">>, "IF">>,
     <<<<"E", "L", "S", "E">>, "ELSE">>,
     <<<<"T", "H", "E", "N">>, "THEN">>,
     <<<<"=">>, "EQUAL_TO">>,
     <<<<">">>, "MORE_THAN">>,
     <<<<"<">>, "LESS_THAN">>,
     <<<<"<", ">">>, "NOT_EQUAL_TO">>,
     <<<<"0", ">">>, "MORE_THAN_ZERO">>,
     <<<<"0", "<">>, "LESS_THAN_ZERO">>,
     <<<<"0", "=">>, "EQUAL_TO_ZERO">>,
     <<<<"D", "O">>, "DO">>,
     <<<<"L", "O", "O", "P">>, "LOOP">>,
     <<<<"I">>, "I">>,
     <<<<"C", "R">>, "CR">>,
     <<<<"E", "M", "I", "T">>, "EMIT">>,
     <<<<"D", "U", "P">>, "DUP">>,
     <<<<"M", "O", "D">>, "MOD">>,
     <<<<"/", "M", "O", "D">>, "SLASH_MOD">>,
     <<<<"N", "E", "G", "A", "T", "E">>, "NEGATE">>,
     <<<<"A", "B", "S">>, "ABS">>,
     <<<<"M", "A", "X">>, "MAX">>,
     <<<<"M", "I", "N">>, "MIN">>,
     <<<<"S", "W", "A", "P">>, "SWAP">>,
     <<<<"R", "O", "T">>, "ROT">>,
     <<<<"D", "R", "O", "P">>, "DROP">>,
     <<<<"N", "I", "P">>, "NIP">>,
     <<<<"T", "U", "C", "K">>, "TUCK">>,
     <<<<"O", "V", "E", "R">>, "OVER">>,
     <<<<"R", "O", "L", "L">>, "ROLL">>,
     <<<<"P", "I", "C", "K">>, "PICK">> >>

\* the digits of tryParseInt's loop: whether all were digits, and intValue
RECURSIVE IntAccum(_, _)
IntAccum(chars, acc) ==
  IF chars = <<>> THEN [ok |-> TRUE, val |-> acc]
  ELSE IF ~isdigit(Head(chars)) THEN [ok |-> FALSE, val |-> acc]
  ELSE IntAccum(Tail(chars), Wrap16(Wrap16(acc * 10) + DigitVal(Head(chars))))

\* [ok, w]: tryParseInt's result and the word it leaves
tryParseInt(m, w) ==
  LET hasSign == m.buffer[m.b_idx] = "-"
      i == IF hasSign THEN m.b_idx + 1 ELSE m.b_idx
      r == IntAccum(Tok(m.buffer, i, m.idx), 0)
  IN  IF i >= m.idx THEN [ok |-> FALSE, w |-> w]
      ELSE IF ~r.ok THEN [ok |-> FALSE, w |-> [w EXCEPT !.wa = r.val]]
      ELSE [ok |-> TRUE,
            w |-> [type |-> "INTEGER",
                   wa |-> IF hasSign THEN Wrap16(0 - r.val) ELSE r.val]]

tryParseBuiltIn(m, w) ==
  LET hits == {k \in 1..Len(BuiltIns) :
                 compare(BuiltIns[k][1], m.buffer, m.b_idx, m.idx)}
  IN  IF hits = {} THEN [ok |-> FALSE, w |-> w]
      ELSE [ok |-> TRUE,
            w |-> [w EXCEPT !.type =
                     BuiltIns[CHOOSE k \in hits : \A j \in hits : k <= j][2]]]

tryParseDefined(m, w) ==
  LET hits == {k \in 1..Len(m.wordList) :
                 compare(m.wordList[k].wordName, m.buffer, m.b_idx, m.idx)}
  IN  IF hits = {} THEN [ok |-> FALSE, w |-> w]
      ELSE LET wl == m.wordList[CHOOSE k \in hits : \A j \in hits : k <= j]
           IN  [ok |-> TRUE,
                w |-> [type |-> "DEFINED_WORD", wa |-> wl.startNode]]

\* parseWord with the integers tried before the user defined words
parseWordIntFirst(m, w) ==
  LET d == tryParseDefined(m, w)
      i == tryParseInt(m, w)
      b == tryParseBuiltIn(m, i.w)
  IN  IF i.ok THEN [m |-> m, w |-> i.w]
      ELSE IF d.ok THEN [m |-> m, w |-> d.w]
      ELSE IF b.ok THEN [m |-> m, w |-> b.w]
      ELSE [m |-> Fail(printStringD(printStringD(m, <<"?", "?", "?", " ">>),
                                    Tok(m.buffer, m.b_idx, m.idx)),
                       UNRECOGNIZED_WORD),
            w |-> b.w]

\* [m, w]: first user defined words, then integers, then built in words
parseWord(m, w) ==
  LET d == tryParseDefined(m, w)
      i == tryParseInt(m, w)
      b == tryParseBuiltIn(m, i.w)
  IN  IF d.ok THEN [m |-> m, w |-> d.w]
      ELSE IF i.ok THEN [m |-> m, w |-> i.w]
      ELSE IF b.ok THEN [m |-> m, w |-> b.w]
      ELSE [m |-> Fail(printStringD(printStringD(m, <<"?", "?", "?", " ">>),
                                    Tok(m.buffer, m.b_idx, m.idx)),
                       UNRECOGNIZED_WORD),
            w |-> b.w]

(***************************************************************************)
(* The string list.                                                        *)
(***************************************************************************)
\* a search of the string list that finds nothing
findNoString(m) == NULL

\* the string found, or NULL
findExistingString(m) ==
  LET hits == {k \in 1..Len(m.s_list) :
                 compare(m.s_list[k], m.buffer, m.b_idx, m.idx)}
  IN  IF hits = {} THEN NULL
      ELSE CHOOSE k \in hits : \A j \in hits : k >= j

addString(m) ==
  [m EXCEPT !.s_list = Append(@, CStr(Tok(m.buffer, m.b_idx, m.idx)))]

(***************************************************************************)
(* The dictionary and the node lists.                                      *)
(***************************************************************************)
\* the nodes from n along next
RECURSIVE Chain(_, _)
Chain(h, n) == IF n = NULL THEN <<>> ELSE <<n>> \o Chain(h, h[n].next)

Range(s) == {s[k] : k \in 1..Len(s)}

\* the place in wordList of the word of that name, or 0
searchForDefinedWord(m, name) ==
  LET hits == {k \in 1..Len(m.wordList) : m.wordList[k].wordName = name}
  IN  IF hits = {} THEN 0
      ELSE CHOOSE k \in hits : \A j \in hits : k <= j

\* free() of every node from start along next
deleteDefinition(m, start) ==
  [m EXCEPT !.live = @ \ Range(Chain(m.heap, start))]

(***************************************************************************)
(* execWordStage1, the cases other than the body of a definition.  Each    *)
(* takes the state and the word and gives [m, w].                          *)
(***************************************************************************)
Stage1PrintS(m, w) ==
  LET m1 == [m EXCEPT !.b_idx = m.idx + 1]
      q == SkipToQuote(m1.buffer, m1.b_idx, m1.b_end)
      m2 == [m1 EXCEPT !.idx = q]
      found == findExistingString(m2)
      m3 == IF found = NULL THEN addString(m2) ELSE m2
      str == IF found = NULL THEN Len(m3.s_list) ELSE found
  IN  IF q >= m1.b_end
      THEN [m |-> Fail(m2, EXPECTED_QUOTE), w |-> w]
      ELSE [m |-> [m3 EXCEPT !.idx = q + 1], w |-> [w EXCEPT !.wa = str]]

\* case COLON up to the name: the caller keeps wordName
Stage1Colon(m, w) ==
  IF m.inWordDefinition
  THEN [m |-> Fail(m, RECURSIVE_WORD_DEFINITION), w |-> w]
  ELSE [m |-> expectWord([m EXCEPT !.inWordDefinition = TRUE,
                                   !.b_idx = m.idx]),
        w |-> w]

Stage1IfDo(m, w) ==
  IF ~m.inWordDefinition
  THEN [m |-> Fail(m, OUTSIDE_WORD_DEFINITION), w |-> w]
  ELSE [m |-> defPush(m, w.type), w |-> [w EXCEPT !.wa = NULL]]

\* case ELSE/THEN as it would be without the test of errorCode that follows
\* defPeek(): a fault of defPeek() is overwritten
Stage1ElseThenUnguarded(m, w) ==
  IF ~m.inWordDefinition
  THEN [m |-> Fail(m, OUTSIDE_WORD_DEFINITION), w |-> w]
  ELSE IF defPeekV(m) # "IF"
  THEN [m |-> Fail(defPeekS(m), INVALID_CONSTRUCTION), w |-> w]
  ELSE [m |-> IF w.type = "THEN" THEN defDiscard(m) ELSE m,
        w |-> [w EXCEPT !.wa = NULL]]

Stage1ElseThen(m, w) ==
  IF ~m.inWordDefinition
  THEN [m |-> Fail(m, OUTSIDE_WORD_DEFINITION), w |-> w]
  ELSE IF defPeekV(m) # "IF"
  THEN [m |-> IF defPeekS(m).errorCode # NO_ERROR THEN defPeekS(m)
              ELSE Fail(m, INVALID_CONSTRUCTION),
        w |-> w]
  ELSE [m |-> IF w.type = "THEN" THEN defDiscard(m) ELSE m,
        w |-> [w EXCEPT !.wa = NULL]]

Stage1I(m, w) ==
  IF ~m.inWordDefinition
  THEN [m |-> Fail(m, OUTSIDE_WORD_DEFINITION), w |-> w]
  ELSE IF ~defHas(m, "DO")
  THEN [m |-> Fail(m, INVALID_CONSTRUCTION), w |-> w]
  ELSE [m |-> m, w |-> [w EXCEPT !.wa = NULL]]

Stage1Loop(m, w) ==
  IF ~m.inWordDefinition
  THEN [m |-> Fail(m, OUTSIDE_WORD_DEFINITION), w |-> w]
  ELSE IF defPeekV(m) # "DO"
  THEN [m |-> IF defPeekS(m).errorCode # NO_ERROR THEN defPeekS(m)
              ELSE Fail(m, INVALID_CONSTRUCTION),
        w |-> w]
  ELSE [m |-> defDiscard(m), w |-> [w EXCEPT !.wa = NULL]]

\* execWordStage1 of one word
execWordStage1(m, w) ==
  IF m.errorCode # NO_ERROR THEN [m |-> m, w |-> w]
  ELSE CASE w.type = "PRINT_S" -> Stage1PrintS(m, w)
         [] w.type = "COLON" -> Stage1Colon(m, w)
         [] w.type \in {"IF", "DO"} -> Stage1IfDo(m, w)
         [] w.type \in {"ELSE", "THEN"} -> Stage1ElseThen(m, w)
         [] w.type = "I" -> Stage1I(m, w)
         [] w.type = "LOOP" -> Stage1Loop(m, w)
         [] OTHER -> [m |-> m, w |-> w]

(***************************************************************************)
(* execWordStage1, case COLON: one turn of the do-while loop that reads    *)
(* the body, and what follows the loop.  A body is [m, startNode, node].   *)
(***************************************************************************)
\* the last node of the list (the new node n left out) with that type and
\* an unset nodeValue, or NULL
LastUndefined(h, start, n, type) ==
  LET c == Chain(h, start)
      hits == {k \in 1..Len(c) :
                 c[k] # n /\ h[c[k]].type = type /\ h[c[k]].wa = NULL}
  IN  IF hits = {} THEN NULL
      ELSE c[CHOOSE k \in hits : \A j \in hits : k >= j]

\* the new node is a LOOP: find its DO
PatchLoop(m, start, n) ==
  LET lastUndefinedDo == LastUndefined(m.heap, start, n, "DO")
  IN  IF lastUndefinedDo = NULL THEN Fail(m, LONE_LOOP)
      ELSE [m EXCEPT !.heap[lastUndefinedDo].wa = n,
                     !.heap[n].wa = lastUndefinedDo]

\* the new node is a THEN: find its IF and ELSE
PatchThen(m, start, n) ==
  LET lastUndefinedIf == LastUndefined(m.heap, start, n, "IF")
      lastUndefinedElse == LastUndefined(m.heap, start, n, "ELSE")
  IN  IF lastUndefinedIf = NULL THEN Fail(m, LONE_THEN)
      ELSE IF lastUndefinedElse # NULL
      THEN [m EXCEPT !.heap[lastUndefinedIf].wa =
                        m.heap[lastUndefinedElse].next,
                     !.heap[lastUndefinedElse].wa = n,
                     !.heap[n].wa = lastUndefinedIf]
      ELSE [m EXCEPT !.heap[lastUndefinedIf].wa = n,
                     !.heap[n].wa = lastUndefinedIf]

\* malloc of a node at the end of the body; its word is not yet set
NewNode(m, start, last) ==
  LET n == Len(m.heap) + 1
      h1 == Append(m.heap, [type |-> "UNSET", wa |-> NULL, next |-> NULL])
      h2 == IF last = NULL THEN h1 ELSE [h1 EXCEPT ![last].next = n]
  IN  [m |-> [m EXCEPT !.heap = h2, !.live = @ \cup {n}],
       startNode |-> IF last = NULL THEN n ELSE start,
       node |-> n]

\* the word r.w, as parseWord or execWordStage1 left it, is the node's
StoreWord(r, n) ==
  [r.m EXCEPT !.heap[n].type = r.w.type, !.heap[n].wa = r.w.wa]

\* the new node n holds its word: a LOOP or a THEN is linked to its opener
BodyPatch(m, start, n) ==
  IF m.errorCode # NO_ERROR THEN m
  ELSE IF m.heap[n].type = "LOOP" THEN PatchLoop(m, start, n)
  ELSE IF m.heap[n].type = "THEN" THEN PatchThen(m, start, n)
  ELSE m

\* parseWord has given p for the new node n
BodyStage1(p, start, n) ==
  IF p.m.errorCode # NO_ERROR THEN StoreWord(p, n)
  ELSE BodyPatch(StoreWord(execWordStage1(p.m, p.w), n), start, n)

\* expectWord has left m1
BodyParse(m1, start, n) ==
  IF m1.errorCode # NO_ERROR THEN m1
  ELSE BodyStage1(parseWord(m1, m1.heap[n]), start, n)

\* a is the body with its new node
BodyRead(a) ==
  [m |-> BodyParse(expectWord([a.m EXCEPT !.b_idx = a.m.idx]),
                   a.startNode, a.node),
   startNode |-> a.startNode,
   node |-> a.node]

\* the body of the do-while loop: a node, its word, stage 1, the patching
BodyWord(m, start, last) == BodyRead(NewNode(m, start, last))

\* after the loop without a fault: the body becomes the word's definition
Publish(m, name, start) ==
  LET wl == searchForDefinedWord(m, name)
  IN  IF wl # 0
      THEN [deleteDefinition(m, m.wordList[wl].startNode)
              EXCEPT !.wordList[wl].startNode = start,
                     !.inWordDefinition = FALSE]
      ELSE [m EXCEPT !.wordList =
                       <<[wordName |-> name, startNode |-> start]>> \o @,
                     !.inWordDefinition = FALSE]

\* the fault path as it would be without deleteDefinition(startNode)
AbandonKeepsNodes(m, start) == [m EXCEPT !.inWordDefinition = FALSE]

\* after the loop with a fault: the nodes are freed
Abandon(m, start) ==
  [deleteDefinition(m, start) EXCEPT !.inWordDefinition = FALSE]

(***************************************************************************)
(* Arithmetic.                                                             *)
(***************************************************************************)
\* division as it would be with rounding toward zero
TruncDiv(a, b) ==
  IF a >= 0 /\ b > 0 THEN a \div b
  ELSE IF a >= 0 THEN 0 - (a \div (0 - b))
  ELSE IF b > 0 THEN 0 - ((0 - a) \div b)
  ELSE (0 - a) \div (0 - b)

\* (int)floor((float)a / b), b # 0
FloorDiv(a, b) == IF b > 0 THEN a \div b ELSE (0 - a) \div (0 - b)

divideS(m, a, b) == IF b = 0 THEN Fail(m, DIVISION_BY_ZERO) ELSE m

divideV(a, b) == IF b = 0 THEN 0 ELSE Wrap16(FloorDiv(a, b))

modS(m, a, b) == IF b = 0 THEN Fail(m, DIVISION_BY_ZERO) ELSE divideS(m, a, b)

modV(a, b) == IF b = 0 THEN 0 ELSE Wrap16(a - divideV(a, b) * b)

slashMod(m, a, b) ==
  IF b = 0 THEN Fail(m, DIVISION_BY_ZERO)
  ELSE LET d == divideV(a, b)
       IN  push(push(divideS(m, a, b), Wrap16(a - d * b)), d)

\* the comparisons as they would be with 1 for true
FlagOne(b) == IF b THEN 1 ELSE 0

Flag(b) == IF b THEN -1 ELSE 0

\* roll() that takes the value one place too near the top
rollNear(m) ==
  LET i == popV(m)
      m1 == popS(m)
      val == peekV(m1, i)
      m2 == peekS(m1, i)
      t == m2.top
  IN  IF i < 0 THEN m1
      ELSE IF m1.errorCode # NO_ERROR THEN m1
      ELSE IF m2.errorCode # NO_ERROR THEN m2
      ELSE [m2 EXCEPT !.stack =
              [k \in 0..(STACK_SIZE - 1) |->
                 IF k = t - 1 THEN val
                 ELSE IF k >= t - i - 1 /\ k < t - 1 THEN m2.stack[k + 1]
                 ELSE m2.stack[k]]]

roll(m) ==
  LET i == popV(m)
      m1 == popS(m)
      val == peekV(m1, i + 1)
      m2 == peekS(m1, i + 1)
      t == m2.top
  IN  IF i < 0 THEN m1
      ELSE IF m1.errorCode # NO_ERROR THEN m1
      ELSE IF m2.errorCode # NO_ERROR THEN m2
      ELSE [m2 EXCEPT !.stack =
              [k \in 0..(STACK_SIZE - 1) |->
                 IF k = t - 1 THEN val
                 ELSE IF k >= t - i - 1 /\ k < t - 1 THEN m2.stack[k + 1]
                 ELSE m2.stack[k]]]

pick(m) ==
  LET i == popV(m)
      m1 == popS(m)
      val == peekV(m1, i + 1)
      m2 == peekS(m1, i + 1)
  IN  IF i < 0 THEN m1
      ELSE IF m1.errorCode # NO_ERROR THEN m1
      ELSE IF m2.errorCode # NO_ERROR THEN m2
      ELSE push(m2, val)

(***************************************************************************)
(* execWordStage2, the cases that run no loop of their own and leave the   *)
(* node to resume from as it is: the state each leaves.                    *)
(***************************************************************************)
\* val = OP(peek(0), peek(-1)) after discard(2), then push(val)
Binary(m, val) == push(peekS(peekS(discard(m, 2), 0), -1), val)

ExecDot(m) ==
  LET val == popV(m)
      m1 == popS(m)
      text == Dec(val) \o <<" ">>
  IN  IF m1.errorCode # NO_ERROR THEN m1
      ELSE printStringD(sprintf(m1, text), text)

RECURSIVE PrintItems(_, _)
PrintItems(m, i) ==
  IF i >= m.top THEN m
  ELSE LET text == Dec(m.stack[i]) \o <<" ">>
       IN  PrintItems(printStringD(sprintf(m, text), text), i + 1)

ExecPrintStack(m) ==
  LET text == <<"<">> \o Dec(m.top) \o <<">", ":", " ">>
  IN  PrintItems(printStringD(sprintf(m, text), text), 0)

ExecDivide(m) ==
  LET m1 == discard(m, 2)
      a == peekV(m1, 0)
      b == peekV(m1, -1)
      m2 == divideS(peekS(peekS(m1, 0), -1), a, b)
  IN  IF m1.errorCode # NO_ERROR THEN m1
      ELSE IF m2.errorCode # NO_ERROR THEN m2
      ELSE push(m2, divideV(a, b))

ExecMod(m) ==
  LET m1 == discard(m, 2)
      a == peekV(m1, 0)
      b == peekV(m1, -1)
      m2 == modS(peekS(peekS(m1, 0), -1), a, b)
  IN  IF m1.errorCode # NO_ERROR THEN m1
      ELSE IF m2.errorCode # NO_ERROR THEN m2
      ELSE push(m2, modV(a, b))

ExecSlashMod(m) ==
  LET m1 == discard(m, 2)
  IN  IF m1.errorCode # NO_ERROR THEN m1
      ELSE slashMod(peekS(peekS(m1, 0), -1), peekV(m1, 0), peekV(m1, -1))

ExecMaxMin(m, type) ==
  LET m1 == discard(m, 2)
      a == peekV(m1, 0)
      b == peekV(m1, -1)
  IN  IF m1.errorCode # NO_ERROR THEN m1
      ELSE push(peekS(peekS(m1, 0), -1),
                IF type = "MAX" THEN (IF a > b THEN a ELSE b)
                ELSE (IF a < b THEN a ELSE b))

ExecDo(m) ==
  LET m1 == discard(m, 2)
      m2 == idxPush(peekS(m1, 0), peekV(m1, 0))
      m3 == idxPush(peekS(m2, -1), peekV(m2, -1))
  IN  IF m1.errorCode # NO_ERROR THEN m1
      ELSE IF m2.errorCode # NO_ERROR THEN m2
      ELSE m3

ExecI(m) ==
  LET m1 == idxPeekS(m, 1)
  IN  IF m1.errorCode # NO_ERROR THEN m1 ELSE push(m1, idxPeekV(m, 1))

ExecDup(m) ==
  LET m1 == peekS(m, 1)
  IN  IF m1.errorCode # NO_ERROR THEN m1 ELSE push(m1, peekV(m, 1))

ExecSwap(m) ==
  LET val == peekV(m, 2)
      m1 == peekS(m, 2)
  IN  IF m1.errorCode # NO_ERROR THEN m1
      ELSE poke(poke(peekS(m1, 1), 2, peekV(m1, 1)), 1, val)

ExecRot(m) ==
  LET val == peekV(m, 3)
      m1 == peekS(m, 3)
      m2 == poke(peekS(m1, 2), 3, peekV(m1, 2))
      m3 == poke(peekS(m2, 1), 2, peekV(m2, 1))
  IN  IF m1.errorCode # NO_ERROR THEN m1 ELSE poke(m3, 1, val)

ExecNip(m) ==
  LET val == popV(m)
      m1 == popS(m)
      m2 == discard(m1, 1)
  IN  IF m1.errorCode # NO_ERROR THEN m1
      ELSE IF m2.errorCode # NO_ERROR THEN m2
      ELSE push(m2, val)

ExecTuck(m) ==
  LET val == peekV(m, 1)
      m1 == peekS(m, 1)
      m2 == push(m1, val)
      m3 == poke(peekS(m2, 3), 2, peekV(m2, 3))
  IN  IF m1.errorCode # NO_ERROR THEN m1
      ELSE IF m2.errorCode # NO_ERROR THEN m2
      ELSE IF m3.errorCode # NO_ERROR THEN m3
      ELSE poke(m3, 3, val)

ExecEmit(m) ==
  LET val == popV(m)
      m1 == popS(m)
  IN  IF m1.errorCode # NO_ERROR THEN m1
      ELSE [m1 EXCEPT !.out = Append(@, Glyph(val))]

\* pop() OP pop(): both operands are popped, in either order
PopPop(m) == popS(popS(m))

ExecSimple(m, w) ==
  CASE w.type = "INTEGER" -> push(m, w.wa)
    [] w.type = "DOT" -> ExecDot(m)
    [] w.type = "PLUS" ->
         push(PopPop(m), Wrap16(popV(m) + popV(popS(m))))
    [] w.type = "MINUS" ->
         LET d == discard(m, 2)
         IN  Binary(m, Wrap16(peekV(d, 0) - peekV(d, -1)))
    [] w.type = "MULTIPLY" ->
         push(PopPop(m), Wrap16(popV(m) * popV(popS(m))))
    [] w.type = "DIVIDE" -> ExecDivide(m)
    [] w.type = "PRINT_S" -> printStringD(m, m.s_list[w.wa])
    [] w.type = "PRINT_STACK" -> ExecPrintStack(m)
    [] w.type = "EQUAL_TO" ->
         LET d == discard(m, 2)
         IN  Binary(m, Flag(peekV(d, 0) = peekV(d, -1)))
    [] w.type = "NOT_EQUAL_TO" ->
         LET d == discard(m, 2)
         IN  Binary(m, Flag(peekV(d, 0) # peekV(d, -1)))
    [] w.type = "MORE_THAN" ->
         LET d == discard(m, 2)
         IN  Binary(m, Flag(peekV(d, 0) > peekV(d, -1)))
    [] w.type = "LESS_THAN" ->
         LET d == discard(m, 2)
         IN  Binary(m, Flag(peekV(d, 0) < peekV(d, -1)))
    [] w.type = "MORE_THAN_ZERO" -> push(popS(m), Flag(popV(m) > 0))
    [] w.type = "LESS_THAN_ZERO" -> push(popS(m), Flag(popV(m) < 0))
    [] w.type = "EQUAL_TO_ZERO" -> push(popS(m), Flag(popV(m) = 0))
    [] w.type = "CR" -> [m EXCEPT !.out = Append(@, "\n")]
    [] w.type = "EMIT" -> ExecEmit(m)
    [] w.type = "DO" -> ExecDo(m)
    [] w.type = "I" -> ExecI(m)
    [] w.type = "DUP" -> ExecDup(m)
    [] w.type = "MOD" -> ExecMod(m)
    [] w.type = "SLASH_MOD" -> ExecSlashMod(m)
    [] w.type = "NEGATE" -> push(popS(m), Wrap16(0 - popV(m)))
    [] w.type = "ABS" ->
         push(popS(m), Wrap16(IF popV(m) < 0 THEN 0 - popV(m) ELSE popV(m)))
    [] w.type \in {"MAX", "MIN"} -> ExecMaxMin(m, w.type)
    [] w.type = "SWAP" -> ExecSwap(m)
    [] w.type = "ROT" -> ExecRot(m)
    [] w.type = "DROP" -> discard(m, 1)
    [] w.type = "NIP" -> ExecNip(m)
    [] w.type = "TUCK" -> ExecTuck(m)
    [] w.type = "OVER" -> push(peekS(m, 2), peekV(m, 2))
    [] w.type = "ROLL" -> roll(m)
    [] w.type = "PICK" -> pick(m)
    [] OTHER -> m

\* case LOOP: the state it leaves, and whether the counter reached the limit
\* case LOOP that takes the frame of a loop that has ended off idxStack
ExecLoopPops(m) ==
  LET m1 == idxIncr(m)
      m2 == idxPeekS(m1, 1)
      m3 == idxPeekS(m2, 2)
  IN  IF m1.errorCode # NO_ERROR THEN m1
      ELSE IF m2.errorCode # NO_ERROR THEN m2
      ELSE IF m3.errorCode # NO_ERROR THEN m3
      ELSE IF idxPeekV(m1, 1) = idxPeekV(m1, 2)
      THEN [m3 EXCEPT !.idxTop = m3.idxTop - 2]
      ELSE m3

ExecLoopS(m) ==
  LET m1 == idxIncr(m)
      m2 == idxPeekS(m1, 1)
  IN  IF m1.errorCode # NO_ERROR THEN m1
      ELSE IF m2.errorCode # NO_ERROR THEN m2
      ELSE idxPeekS(m2, 2)

ExecLoopV(m) ==
  LET m1 == idxIncr(m) IN idxPeekV(m1, 1) = idxPeekV(m1, 2)

(***************************************************************************)
(* execWordStage2, the cases that run a loop of their own: DEFINED_WORD    *)
(* (the while loop over the body) and IF (the while loop over the branch). *)
(* cs holds one frame [kind, node] for each such loop that is running,     *)
(* the innermost last: kind "W" for DEFINED_WORD, "IF" for IF, and node    *)
(* the loop's local node.  A step gives [m, cs, pc].                       *)
(***************************************************************************)
Front(q) == SubSeq(q, 1, Len(q) - 1)

\* a fault: every activation returns NULL and the driver takes over
Unwind(m) == [m |-> m, cs |-> <<>>, pc |-> "finish"]

\* execWordStage2 has returned r, without a fault, to the loop of the last
\* frame of frames, or to the driver when there is none
Resume(m, frames, r) ==
  IF frames = <<>> THEN [m |-> m, cs |-> <<>>, pc |-> "finish"]
  ELSE LET k == Len(frames)
       IN  IF frames[k].kind = "W"
           THEN [m |-> m,
                 cs |-> [frames EXCEPT ![k].node =
                           IF r # NULL THEN m.heap[r].next ELSE NULL],
                 pc |-> "exec"]
           ELSE IF r = NULL THEN Unwind(Fail(m, NODE_NULL_IN_IF))
           ELSE [m |-> m,
                 cs |-> [frames EXCEPT ![k].node = m.heap[r].next],
                 pc |-> "exec"]

\* a loop of DEFINED_WORD that never leaves the end of its body
StayInWord(m, frames) == [m |-> m, cs |-> frames, pc |-> "exec"]

\* case DEFINED_WORD, after its loop: break, then return node, which the
\* loop has left NULL
ReturnFromWord(m, frames) == Resume(m, Front(frames), NULL)

\* case IF, after its loop: the ELSE's nodeValue, or the THEN
ReturnFromIf(m, frames) ==
  LET n == frames[Len(frames)].node
  IN  Resume(m, Front(frames),
             IF m.heap[n].type = "ELSE" THEN m.heap[n].wa ELSE n)

\* a case of execWordStage2 has left m1 and is to return r
ResumeOrUnwind(m1, frames, r) ==
  IF m1.errorCode # NO_ERROR THEN Unwind(m1) ELSE Resume(m1, frames, r)

\* case IF: pop() has given flag and left m1; the branch starts at first
EnterIf(m1, frames, first) ==
  IF m1.errorCode # NO_ERROR THEN Unwind(m1)
  ELSE [m |-> m1,
        cs |-> Append(frames, [kind |-> "IF", node |-> first]),
        pc |-> "exec"]

\* execWordStage2(&n->_word, n) called from the loop of the last frame
ExecNode(m, frames, n) ==
  LET w == m.heap[n]
  IN  CASE w.type = "DEFINED_WORD" ->
             [m |-> m,
              cs |-> Append(frames, [kind |-> "W", node |-> w.wa]),
              pc |-> "exec"]
        [] w.type = "IF" ->
             EnterIf(popS(m), frames,
                     IF popV(m) # 0 THEN w.next ELSE w.wa)
        [] w.type = "LOOP" ->
             ResumeOrUnwind(ExecLoopS(m), frames,
                            IF ExecLoopV(m) THEN n ELSE w.wa)
        [] OTHER -> ResumeOrUnwind(ExecSimple(m, w), frames, n)

\* one step of the innermost loop
Step(m, frames) ==
  LET f == frames[Len(frames)]
  IN  IF f.kind = "W" /\ f.node = NULL THEN ReturnFromWord(m, frames)
      ELSE IF f.kind = "IF" /\ m.heap[f.node].type \in {"ELSE", "THEN"}
      THEN ReturnFromIf(m, frames)
      ELSE ExecNode(m, frames, f.node)

(***************************************************************************)
(* Undefined behaviour.  The IF loop reads node->_word.type with node NULL *)
(* when a branch runs off the end of the body or the IF was never patched; *)
(* a node whose definition was deleted is read after free().  What the     *)
(* read gives is not fixed by the source: a freed node may still hold what *)
(* it held ("stale") or not ("lost"), and a read through NULL is "lost".   *)
(* After "lost" the model follows the program no further (pc = "ub").      *)
(***************************************************************************)
ReadsNull(frames) ==
  LET f == frames[Len(frames)] IN f.kind = "IF" /\ f.node = NULL

ReadsFreed(m, frames) ==
  LET f == frames[Len(frames)] IN f.node # NULL /\ f.node \notin m.live

Outcomes(m, frames) ==
  IF ReadsNull(frames) THEN {"lost"}
  ELSE IF ReadsFreed(m, frames) THEN {"stale", "lost"}
  ELSE {"defined"}

(***************************************************************************)
(* The input: the lines the user may type.                                 *)
(***************************************************************************)
RECURSIVE Join(_)
Join(toks) ==
  IF Len(toks) = 1 THEN toks[1]
  ELSE toks[1] \o <<" ">> \o Join(Tail(toks))

tCNT == <<"C", "N", "T">>
tIF == <<"I", "F">>
tTHEN == <<"T", "H", "E", "N">>
tDO == <<"D", "O">>
tLOOP == <<"L", "O", "O", "P">>
tXYZ == <<"X", "Y", "Z">>
tMOD == <<"M", "O", "D">>

Lines ==
  { \* : A 1 ; : B A 2 ; B
    Join(<< <<":">>, <<"A">>, <<"1">>, <<";">>, <<":">>, <<"B">>, <<"A">>,
            <<"2">>, <<";">>, <<"B">> >>),
    \* : A 3 ; B
    Join(<< <<":">>, <<"A">>, <<"3">>, <<";">>, <<"B">> >>),
    \* 1 0 / 7 2 / .
    Join(<< <<"1">>, <<"0">>, <<"/">>, <<"7">>, <<"2">>, <<"/">>, <<".">> >>),
    \* : C IF ; : D THEN ;
    Join(<< <<":">>, <<"C">>, tIF, <<";">>, <<":">>, <<"D">>, tTHEN,
            <<";">> >>),
    \* : E THEN ; : F LOOP ;
    Join(<< <<":">>, <<"E">>, tTHEN, <<";">>, <<":">>, <<"F">>, tLOOP,
            <<";">> >>),
    \* : G IF LOOP
    Join(<< <<":">>, <<"G">>, tIF, tLOOP >>),
    \* : CNT 3 0 DO I . LOOP ; CNT
    Join(<< <<":">>, tCNT, <<"3">>, <<"0">>, tDO, <<"I">>, <<".">>, tLOOP,
            <<";">>, tCNT >>),
    \* : K 2 0 DO A LOOP ; K
    Join(<< <<":">>, <<"K">>, <<"2">>, <<"0">>, tDO, <<"A">>, tLOOP, <<";">>,
            <<"K">> >>),
    \* + XYZ IF . 5 0 MOD
    Join(<< <<"+">>, tXYZ, tIF, <<".">>, <<"5">>, <<"0">>, tMOD >>) }

(***************************************************************************)
(* The driver, loop().                                                     *)
(***************************************************************************)
ErrorMessages ==
  [e \in {NO_ERROR} |-> ""] @@
  [e \in {STACK_OVERFLOW} |-> "S. overflow!"] @@
  [e \in {STACK_UNDERFLOW} |-> "S. underflow!"] @@
  [e \in {STACK_ERROR} |-> "S. error!"] @@
  [e \in {INPUT_ERROR} |-> "Input error!"] @@
  [e \in {EXPECTED_WORD} |-> "Exp. a word!"] @@
  [e \in {EXPECTED_QUOTE} |-> "\" expected!"] @@
  [e \in {RECURSIVE_WORD_DEFINITION} |-> "Recursive def!"] @@
  [e \in {LONE_THEN} |-> "Lone THEN!"] @@
  [e \in {OUTSIDE_WORD_DEFINITION} |-> "Def only word!"] @@
  [e \in {UNRECOGNIZED_WORD} |-> "Undefined word!"] @@
  [e \in {INVALID_CONSTRUCTION} |-> "Invalid constr!"] @@
  [e \in {LONE_LOOP} |-> "Lone LOOP!"] @@
  [e \in {DIVISION_BY_ZERO} |-> "Division by 0!"] @@
  [e \in {NODE_NULL_IN_IF} |-> "Null node!"]

Init ==
  /\ buffer = [k \in 0..(BUFFER_SIZE - 1) |-> NUL]
  /\ b_idx = 0
  /\ b_end = 0
  /\ errorCode = NO_ERROR
  /\ stack = [k \in 0..(STACK_SIZE - 1) |-> 0]
  /\ top = 0
  /\ defStack = [k \in 0..(DEF_STACK_SIZE - 1) |-> "INTEGER"]
  /\ defTop = 0
  /\ idxStack = [k \in 0..(IDX_STACK_SIZE - 1) |-> 0]
  /\ idxTop = 0
  /\ s_list = <<>>
  /\ inWordDefinition = FALSE
  /\ wordList = <<>>
  /\ heap = <<>>
  /\ live = {}
  /\ word = [type |-> "INTEGER", wa |-> 0]
  /\ idx = 0
  /\ startNode = NULL
  /\ node = NULL
  /\ wordName = <<>>
  /\ cs = <<>>
  /\ pc = "read"
  /\ out = <<>>
  /\ errLog = <<>>
  /\ nread = 0

\* parseWord or execWordStage1 has given r; loop() goes on to stage
\* unless there is a fault
CommitWord(r, stage) ==
  /\ Commit(r.m)
  /\ word' = r.w
  /\ pc' = IF r.m.errorCode # NO_ERROR THEN "finish" ELSE stage

\* the do-while loop has run once more and given r
CommitBody(r) ==
  IF r.m.errorCode # NO_ERROR
  THEN /\ Commit(Abandon(r.m, r.startNode))
       /\ word' = word
       /\ startNode' = NULL
       /\ node' = NULL
       /\ wordName' = <<>>
       /\ pc' = "finish"
  ELSE IF r.m.heap[r.node].type = "SEMICOLON"
  THEN /\ Commit(Publish(r.m, wordName, r.startNode))
       /\ word' = [word EXCEPT !.wa = r.startNode]
       /\ startNode' = NULL
       /\ node' = NULL
       /\ wordName' = <<>>
       /\ pc' = "stage2"
  ELSE /\ Commit(r.m)
       /\ word' = word
       /\ startNode' = r.startNode
       /\ node' = r.node
       /\ wordName' = wordName
       /\ pc' = "compile"

\* a step of execWordStage2 has given r
CommitStep(r) ==
  /\ pc' = r.pc
  /\ cs' = r.cs
  /\ Commit(r.m)

\* readWord(): input() finds the buffer read to its end and gets a line
InputLine ==
  /\ pc = "read"
  /\ b_idx >= b_end
  /\ nread < MaxLines
  /\ \E line \in Lines : Commit(input(Cur, line))
  /\ nread' = nread + 1
  /\ UNCHANGED <<word, startNode, node, wordName, cs, pc>>

\* readWord() finds a word in the buffer; parseWord()
ReadWord ==
  /\ pc = "read"
  /\ b_idx < b_end
  /\ SkipBlanks(buffer, b_idx, b_end) < b_end
  /\ CommitWord(parseWord(readWord(Cur), word), "stage1")
  /\ UNCHANGED <<startNode, node, wordName, cs, nread>>

\* execWordStage1(&_word, idx); for a colon, up to the name of the word
Stage1 ==
  /\ pc = "stage1"
  /\ CommitWord(execWordStage1(Cur, word),
                IF word.type = "COLON" THEN "compile" ELSE "stage2")
  /\ wordName' = IF word.type = "COLON" /\ errorCode' = NO_ERROR
                 THEN CStr(Tok(buffer', b_idx', idx'))
                 ELSE wordName
  /\ UNCHANGED <<startNode, node, cs, nread>>

\* execWordStage1, case COLON: one word of the body, and after the last
\* one the end of the case
CompileWord ==
  /\ pc = "compile"
  /\ CommitBody(BodyWord(Cur, startNode, node))
  /\ UNCHANGED <<cs, nread>>

\* execWordStage2(&_word, NULL)
Stage2 ==
  /\ pc = "stage2"
  /\ IF word.type = "DEFINED_WORD"
     THEN /\ cs' = <<[kind |-> "W", node |-> word.wa]>>
          /\ pc' = "exec"
          /\ Commit(Cur)
     ELSE /\ cs' = <<>>
          /\ pc' = "finish"
          /\ Commit(ExecSimple(Cur, word))
  /\ UNCHANGED <<word, startNode, node, wordName, nread>>

\* execWordStage2 at work in the body of a defined word
Exec ==
  /\ pc = "exec"
  /\ \E o \in Outcomes(Cur, cs) :
       IF o = "lost"
       THEN /\ pc' = "ub"
            /\ cs' = cs
            /\ Commit(Cur)
       ELSE CommitStep(Step(Cur, cs))
  /\ UNCHANGED <<word, startNode, node, wordName, nread>>

\* the end of a turn that leaves inWordDefinition as it finds it
FinishKeepsFlag ==
  /\ pc = "finish"
  /\ LET i == IF errorCode = RECURSIVE_WORD_DEFINITION THEN b_end ELSE idx
     IN  /\ idx' = i
         /\ b_idx' = i
  /\ out' = IF errorCode # NO_ERROR THEN Append(out, ErrorMessages[errorCode])
            ELSE out
  /\ errorCode' = NO_ERROR
  /\ errLog' = <<>>
  /\ pc' = "read"
  /\ UNCHANGED <<buffer, b_end, stack, top, defStack, defTop, idxStack,
                 idxTop, s_list, inWordDefinition, wordList, heap, live, word,
                 startNode, node, wordName, cs, nread>>

\* the end of a turn that goes on in the line after any fault
FinishInLine ==
  /\ pc = "finish"
  /\ idx' = idx
  /\ b_idx' = idx
  /\ inWordDefinition' = IF errorCode # NO_ERROR THEN FALSE
                         ELSE inWordDefinition
  /\ out' = IF errorCode # NO_ERROR THEN Append(out, ErrorMessages[errorCode])
            ELSE out
  /\ errorCode' = NO_ERROR
  /\ errLog' = <<>>
  /\ pc' = "read"
  /\ UNCHANGED <<buffer, b_end, stack, top, defStack, defTop, idxStack,
                 idxTop, s_list, wordList, heap, live, word, startNode, node,
                 wordName, cs, nread>>

\* the end of a turn of loop(), and errorCode = NO_ERROR of the next
Finish ==
  /\ pc = "finish"
  /\ LET i == IF errorCode = RECURSIVE_WORD_DEFINITION THEN b_end ELSE idx
     IN  /\ idx' = i
         /\ b_idx' = i
  /\ inWordDefinition' = IF errorCode # NO_ERROR THEN FALSE
                         ELSE inWordDefinition
  /\ out' = IF errorCode # NO_ERROR THEN Append(out, ErrorMessages[errorCode])
            ELSE out
  /\ errorCode' = NO_ERROR
  /\ errLog' = <<>>
  /\ pc' = "read"
  /\ UNCHANGED <<buffer, b_end, stack, top, defStack, defTop, idxStack,
                 idxTop, s_list, wordList, heap, live, word, startNode, node,
                 wordName, cs, nread>>

Next ==
  \/ InputLine
  \/ ReadWord
  \/ Stage1
  \/ CompileWord
  \/ Stage2
  \/ Exec
  \/ Finish

Spec == Init /\ [][Next]_vars

(***************************************************************************)
(* Properties.                                                             *)
(***************************************************************************)
\* the nodes of the body that starts at start
Body(start) == Range(Chain(heap, start))

\* the nodes of all the bodies of the dictionary
DictNodes == UNION {Body(wordList[k].startNode) : k \in 1..Len(wordList)}

\* the innermost frame is the loop of a DEFINED_WORD that has reached the
\* end of its body and an outer frame waits for it
CalleeDone ==
  /\ pc = "exec"
  /\ Len(cs) >= 2
  /\ cs[Len(cs)].kind = "W"
  /\ cs[Len(cs)].node = NULL

\* C1: when the body of a word called from another body has run to its
\* end, the caller goes on at the node after the reference to the callee
\* (after : A 1 ; and : B A 2 ; the word B pushes 1 and then 2)
C1_CallerResumesAfterCall ==
  [][CalleeDone =>
       /\ pc' = "exec"
       /\ Len(cs') = Len(cs) - 1
       /\ cs'[Len(cs')].node = heap[cs[Len(cs) - 1].node].next]_vars

\* C2: no node of a body of the dictionary refers to a body that has been
\* released: a reference to a defined word points to a node that is live
C2_NoReferenceToReleasedBody ==
  \A n \in DictNodes : heap[n].type = "DEFINED_WORD" => heap[n].wa \in live

\* the driver is about to run / with a divisor of 0 on top of the stack
DivideByZero ==
  /\ pc = "stage2"
  /\ word.type = "DIVIDE"
  /\ top >= 2
  /\ stack[top - 1] = 0

\* C3: / with a divisor of 0 raises DIVISION_BY_ZERO and leaves the int
\* stack, its depth and its contents, as it was before the /
C3_DivideByZeroKeepsStack ==
  [][DivideByZero =>
       /\ errorCode' = DIVISION_BY_ZERO
       /\ top' = top
       /\ stack' = stack]_vars

\* C4: when a definition has compiled (its ; is read without a fault and
\* the body is published) defTop is 0
C4_DefStackEmptyAfterCompile ==
  [][(pc = "compile" /\ pc' = "stage2") => defTop' = 0]_vars

\* C5: when the reading of a body has ended with a fault and the nodes are
\* freed, defTop is 0 (the driver's fault handling does not change defTop,
\* so this is its value when the next statement is read)
C5_DefStackEmptyAfterAbort ==
  [][(pc = "compile" /\ pc' = "finish") => defTop' = 0]_vars

\* the word that this turn of the do-while loop has read into the new node
NewWordType == heap'[Len(heap')].type

\* the body read so far holds an IF that no THEN has resolved
OpenIf == \E n \in Body(startNode) : heap[n].type = "IF" /\ heap[n].wa = NULL

\* the body read so far holds a DO
DoSeen == \E n \in Body(startNode) : heap[n].type = "DO"

\* C6: a THEN read into a body that holds no unresolved IF raises
\* LONE_THEN and no other fault
C6_LoneThen ==
  [][(pc = "compile" /\ NewWordType = "THEN" /\ ~OpenIf) =>
       errorCode' = LONE_THEN]_vars

\* C7: a LOOP read into a body while the top of defStack is not a DO
\* raises LONE_LOOP when the body holds no DO and INVALID_CONSTRUCTION
\* when it holds one, and no other fault
C7_LoneLoop ==
  [][(/\ pc = "compile"
      /\ NewWordType = "LOOP"
      /\ (defTop = 0 \/ defStack[defTop - 1] # "DO")) =>
       errorCode' = IF DoSeen THEN INVALID_CONSTRUCTION ELSE LONE_LOOP]_vars

\* the dictionary, its names and the body of each, stays as it is
DictSame ==
  /\ wordList' = wordList
  /\ \A n \in DictNodes : n \in live' /\ heap'[n] = heap[n]

\* this turn of the do-while loop reads the ; without a fault
ClosesDefinition == NewWordType = "SEMICOLON" /\ errorCode' = NO_ERROR

\* C8: from the : on, the dictionary stays as it is until the ; has
\* compiled without a fault, and when the reading of the body ends with a
\* fault the dictionary is as before and every node of the body is freed
C8_PublishedOnlyWhenClosed ==
  [][/\ (pc = "stage1" /\ word.type = "COLON") => DictSame
     /\ (pc = "compile" /\ ~ClosesDefinition) => DictSame
     /\ (pc = "compile" /\ errorCode' # NO_ERROR) =>
          /\ pc' = "finish"
          /\ (Body(startNode) \cup {Len(heap')}) \cap live' = {}]_vars

\* a definition has been given up with LONE_THEN while the dictionary
\* holds a word: its node is freed
C8_Witness ==
  /\ pc = "finish"
  /\ word.type = "COLON"
  /\ errorCode = LONE_THEN
  /\ wordList # <<>>
  /\ heap # <<>>
  /\ Len(heap) \notin live

\* C9: between two resets of errorCode by the driver, errorCode is set at
\* most once: the first fault stays and no later fault takes its place
C9_FirstFaultWins ==
  /\ Len(errLog) <= 1
  /\ errorCode = IF errLog = <<>> THEN NO_ERROR ELSE errLog[1]

\* defPeek() on the empty defStack has set STACK_ERROR at a THEN or a LOOP,
\* and the INVALID_CONSTRUCTION that follows it in the code was held back
C9_Witness ==
  /\ pc = "finish"
  /\ word.type = "COLON"
  /\ errorCode = STACK_ERROR
  /\ errLog = <<STACK_ERROR>>

\* the body, as a sequence of nodes, is  limit start DO ... LOOP ...  with
\* start < limit, one DO and no IF
SingleLoop(c) ==
  /\ Len(c) >= 4
  /\ heap[c[1]].type = "INTEGER"
  /\ heap[c[2]].type = "INTEGER"
  /\ heap[c[3]].type = "DO"
  /\ heap[c[2]].wa < heap[c[1]].wa
  /\ \A k \in 1..Len(c) : heap[c[k]].type = "DO" => k = 3
  /\ \A k \in 1..Len(c) : heap[c[k]].type # "IF"
  /\ \E k \in 4..Len(c) : heap[c[k]].type = "LOOP"

\* the word called by the driver has come to the end of its body
WordDone ==
  /\ pc = "exec"
  /\ cs = <<[kind |-> "W", node |-> NULL]>>
  /\ word.wa \in live

\* C10: when a word whose body is a single loop, limit start DO ... LOOP
\* with start < limit, has run to its end, the loop has counted up to the
\* limit: the frame on top of idxStack holds the limit and a counter equal
\* to it
C10_LoopCountsToLimit ==
  (WordDone /\ SingleLoop(Chain(heap, word.wa))) =>
    /\ idxTop >= 2
    /\ idxStack[idxTop - 2] = heap[word.wa].wa
    /\ idxStack[idxTop - 1] = heap[word.wa].wa

(***************************************************************************)
(* Arithmetic at the prompt: the user types one line, three integer        *)
(* literals and an operator, into the interpreter as it starts.  ABS is    *)
(* left out: what push(abs(pop())) does depends on whether the build's abs *)
(* is a function or a macro that evaluates its argument twice.             *)
(***************************************************************************)
ArithVals == {-32768, -7, -1, 0, 1, 2, 32767}

ArithOps ==
  { <<"+">>, <<"-">>, <<"*">>, <<"/">>, tMOD, <<"/">> \o tMOD, <<"=">>,
    <<"<", ">">>, <<">">>, <<"<">>, <<"0", ">">>, <<"0", "<">>,
    <<"0", "=">>, <<"D", "U", "P">>, <<"S", "W", "A", "P">>,
    <<"R", "O", "T">>, <<"D", "R", "O", "P">>, <<"N", "I", "P">>,
    <<"T", "U", "C", "K">>, <<"O", "V", "E", "R">>,
    <<"N", "E", "G", "A", "T", "E">>, <<"M", "A", "X">>, <<"M", "I", "N">>,
    <<"P", "I", "C", "K">>, <<"R", "O", "L", "L">> }

ArithLines ==
  {Join(<<Dec(x), Dec(y), Dec(z), op>>) : x, y, z \in ArithVals,
                                          op \in ArithOps}

InputArith ==
  /\ pc = "read"
  /\ b_idx >= b_end
  /\ nread = 0
  /\ \E line \in ArithLines : Commit(input(Cur, line))
  /\ nread' = nread + 1
  /\ UNCHANGED <<word, startNode, node, wordName, cs, pc>>

NextArith ==
  \/ InputArith
  \/ ReadWord
  \/ Stage1
  \/ Stage2
  \/ Finish

SpecArith == Init /\ [][NextArith]_vars

\* the int stack as a sequence, the top last
Data(stk, t) == [k \in 1..t |-> stk[k - 1]]

\* q is a / b rounded toward negative infinity
IsFloorQuot(q, a, b) ==
  IF b > 0 THEN b * q <= a /\ a < b * q + b
  ELSE b * q >= a /\ a > b * q + b

\* r, as an int, is the floored quotient of a by b modulo the width of int
IsQuot(r, a, b) ==
  \E q \in {r, Wrap16(r - 1) + 1} : IsFloorQuot(q, a, b)

\* r is a minus b times the floored quotient of a by b
IsRem(r, a, b) ==
  \E q \in {(a - r) \div (IF b > 0 THEN b ELSE 0 - b),
            0 - ((a - r) \div (IF b > 0 THEN b ELSE 0 - b))} :
    IsFloorQuot(q, a, b) /\ r = a - q * b

\* the words of postfix arithmetic
PostfixTypes ==
  {"INTEGER", "PLUS", "MINUS", "MULTIPLY", "DIVIDE", "MOD", "SLASH_MOD",
   "EQUAL_TO", "NOT_EQUAL_TO", "MORE_THAN", "LESS_THAN", "MORE_THAN_ZERO",
   "LESS_THAN_ZERO", "EQUAL_TO_ZERO", "DUP", "SWAP", "ROT", "DROP", "NIP",
   "TUCK", "OVER", "NEGATE", "MAX", "MIN", "PICK", "ROLL"}

\* the operands each needs (PICK and ROLL: the index)
Operands(type) ==
  CASE type = "INTEGER" -> 0
    [] type \in {"MORE_THAN_ZERO", "LESS_THAN_ZERO", "EQUAL_TO_ZERO", "DUP",
                 "DROP", "NEGATE", "PICK", "ROLL"} -> 1
    [] type = "ROT" -> 3
    [] OTHER -> 2

\* the stack s without its k topmost values
Under(s, k) == SubSeq(s, 1, Len(s) - k)

\* s without the value at depth u (0 is the top)
Without(s, u) ==
  SubSeq(s, 1, Len(s) - u - 1) \o SubSeq(s, Len(s) - u + 1, Len(s))

\* t is the stack that postfix evaluation of the word (its type, and v the
\* value of a literal) gives from the stack s; a is the second from the
\* top and b the top
Postfix(type, v, s, t) ==
  LET n == Len(s)
      a == s[n - 1]
      b == s[n]
  IN  CASE type = "INTEGER" -> t = Append(s, v)
        [] type = "PLUS" -> t = Append(Under(s, 2), Wrap16(a + b))
        [] type = "MINUS" -> t = Append(Under(s, 2), Wrap16(a - b))
        [] type = "MULTIPLY" -> t = Append(Under(s, 2), Wrap16(a * b))
        [] type = "DIVIDE" ->
             /\ Len(t) = n - 1
             /\ Under(t, 1) = Under(s, 2)
             /\ IsQuot(t[n - 1], a, b)
        [] type = "MOD" ->
             /\ Len(t) = n - 1
             /\ Under(t, 1) = Under(s, 2)
             /\ IsRem(t[n - 1], a, b)
        [] type = "SLASH_MOD" ->
             /\ Len(t) = n
             /\ Under(t, 2) = Under(s, 2)
             /\ IsRem(t[n - 1], a, b)
             /\ IsQuot(t[n], a, b)
        [] type = "EQUAL_TO" ->
             t = Append(Under(s, 2), IF a = b THEN -1 ELSE 0)
        [] type = "NOT_EQUAL_TO" ->
             t = Append(Under(s, 2), IF a # b THEN -1 ELSE 0)
        [] type = "MORE_THAN" ->
             t = Append(Under(s, 2), IF a > b THEN -1 ELSE 0)
        [] type = "LESS_THAN" ->
             t = Append(Under(s, 2), IF a < b THEN -1 ELSE 0)
        [] type = "MORE_THAN_ZERO" ->
             t = Append(Under(s, 1), IF b > 0 THEN -1 ELSE 0)
        [] type = "LESS_THAN_ZERO" ->
             t = Append(Under(s, 1), IF b < 0 THEN -1 ELSE 0)
        [] type = "EQUAL_TO_ZERO" ->
             t = Append(Under(s, 1), IF b = 0 THEN -1 ELSE 0)
        [] type = "DUP" -> t = Append(s, b)
        [] type = "SWAP" -> t = Under(s, 2) \o <<b, a>>
        [] type = "ROT" -> t = Under(s, 3) \o <<a, b, s[n - 2]>>
        [] type = "DROP" -> t = Under(s, 1)
        [] type = "NIP" -> t = Append(Under(s, 2), b)
        [] type = "TUCK" -> t = Under(s, 2) \o <<b, a, b>>
        [] type = "OVER" -> t = Append(s, a)
        [] type = "NEGATE" -> t = Append(Under(s, 1), Wrap16(0 - b))
        [] type = "MAX" -> t = Append(Under(s, 2), IF a > b THEN a ELSE b)
        [] type = "MIN" -> t = Append(Under(s, 2), IF a < b THEN a ELSE b)
        [] type = "PICK" ->
             /\ b < n - 1
             /\ t = Append(Under(s, 1), s[n - 1 - b])
        [] type = "ROLL" ->
             /\ b < n - 1
             /\ t = Append(Without(Under(s, 1), b), s[n - 1 - b])

\* the driver is about to run a word of postfix arithmetic; an index of
\* PICK or ROLL is not negative
PostfixWord ==
  /\ pc = "stage2"
  /\ word.type \in PostfixTypes
  /\ word.type \in {"PICK", "ROLL"} => (top = 0 \/ stack[top - 1] >= 0)

DividesOrMods ==
  /\ pc = "stage2"
  /\ word.type \in {"DIVIDE", "MOD"}
  /\ top >= 2
  /\ stack[top - 1] # 0

\* / has left the floored quotient of a by b, MOD the remainder that goes
\* with it, which is 0 or has the sign of b, in the place of a and b
FlooredResult(a, b) ==
  /\ errorCode' = NO_ERROR
  /\ top' = top - 1
  /\ Under(Data(stack', top'), 1) = Under(Data(stack, top), 2)
  /\ word.type = "DIVIDE" => IsFloorQuot(stack'[top' - 1], a, b)
  /\ word.type = "MOD" =>
       /\ IsRem(stack'[top' - 1], a, b)
       /\ stack'[top' - 1] # 0 => (stack'[top' - 1] > 0 <=> b > 0)

\* C12, as claimed: for all a and all b # 0, a b / pushes floor(a / b) and
\* a b MOD pushes a - floor(a / b) * b
C12_FlooredForAll ==
  [][DividesOrMods => FlooredResult(stack[top - 2], stack[top - 1])]_vars

\* C12, amended: the same for all a and all b # 0 but -32768 -1 /, whose
\* quotient 32768 is no int
C12_FlooredWhenAnInt ==
  [][(/\ DividesOrMods
      /\ ~(/\ word.type = "DIVIDE"
           /\ stack[top - 2] = -32768
           /\ stack[top - 1] = -1)) =>
       FlooredResult(stack[top - 2], stack[top - 1])]_vars

\* -7 2 / has left -4 where the -7 was; the 2 is still above the top
C12_Witness ==
  /\ pc = "finish"
  /\ word.type = "DIVIDE"
  /\ errorCode = NO_ERROR
  /\ top = 2
  /\ stack[1] = -4
  /\ stack[2] = 2

(***************************************************************************)
(* A second input: lines that fill the data stack to its end and empty it. *)
(***************************************************************************)
MaxDeep == 3

\* 25 literals on one line: 1 2 3 ... 9 0 1 2 ...
DeepFill == Join([k \in 1..25 |-> Dec(k % 10)])

DeepLines ==
  { DeepFill,
    \* 7 DUP
    Join(<< <<"7">>, <<"D", "U", "P">> >>),
    \* . .
    Join(<< <<".">>, <<".">> >>),
    \* DROP 8
    Join(<< <<"D", "R", "O", "P">>, <<"8">> >>),
    \* 9 + 9 NIP 9 TUCK SWAP
    Join(<< <<"9">>, <<"+">>, <<"9">>, <<"N", "I", "P">>, <<"9">>,
            <<"T", "U", "C", "K">>, <<"S", "W", "A", "P">> >>) }

InputDeep ==
  /\ pc = "read"
  /\ b_idx >= b_end
  /\ nread < MaxDeep
  /\ \E line \in DeepLines : Commit(input(Cur, line))
  /\ nread' = nread + 1
  /\ UNCHANGED <<word, startNode, node, wordName, cs, pc>>

NextDeep ==
  \/ InputDeep
  \/ ReadWord
  \/ Stage1
  \/ Stage2
  \/ Finish

SpecDeep == Init /\ [][NextDeep]_vars

\* the driver is about to run a word that is one push (a literal) or
\* one pop (.)
Pushes == pc = "stage2" /\ errorCode = NO_ERROR /\ word.type = "INTEGER"

Pops == pc = "stage2" /\ errorCode = NO_ERROR /\ word.type = "DOT"

\* C13: the data stack never holds more than STACK_SIZE values; a push onto
\* STACK_SIZE values raises STACK_OVERFLOW and changes none of them, a push
\* onto fewer raises nothing and adds its value; a pop from an empty stack
\* raises STACK_UNDERFLOW and leaves it empty
C13_StackBounded ==
  [][/\ top' \in 0..STACK_SIZE
     /\ Pushes =>
          IF top = STACK_SIZE
          THEN /\ errorCode' = STACK_OVERFLOW
               /\ top' = STACK_SIZE
               /\ stack' = stack
          ELSE /\ errorCode' = NO_ERROR
               /\ Data(stack', top') = Append(Data(stack, top), word.wa)
     /\ Pops =>
          IF top = 0
          THEN /\ errorCode' = STACK_UNDERFLOW
               /\ top' = 0
          ELSE /\ errorCode' = NO_ERROR
               /\ Data(stack', top') = Under(Data(stack, top), 1)]_vars

\* the literal 7 has met a stack of STACK_SIZE values
C13_Witness ==
  /\ pc = "finish"
  /\ word.type = "INTEGER"
  /\ word.wa = 7
  /\ errorCode = STACK_OVERFLOW
  /\ top = STACK_SIZE
  /\ stack[STACK_SIZE - 1] = 5

(***************************************************************************)
(* A third input: quoted texts, names that spell literals and built in     *)
(* words, and lines that end inside a definition.                          *)
(***************************************************************************)
MaxText == 3

\* the characters of a line
Chars(str) == [k \in 1..Len(str) |-> SubSeq(str, k, k)]

TextLines ==
  { Chars(".\" AB\" .\" AB\" .\" C\""),
    Chars(": P .\" AB\" .\" D\" ; P"),
    Chars(".\" C\" .\" AB"),
    Chars(": 5 7 ; 5 -5 - +5 5X"),
    Chars(": DUP 5 ; 4 DUP XYZ"),
    Chars(": ; 1 ; ; 2 ;"),
    Chars(": : 4 ; : 6 :"),
    Chars(": X : Y ; 5"),
    Chars(": X 1 "),
    Chars(": "),
    Chars(":"),
    Chars(": X") }

InputText ==
  /\ pc = "read"
  /\ b_idx >= b_end
  /\ nread < MaxText
  /\ \E line \in TextLines : Commit(input(Cur, line))
  /\ nread' = nread + 1
  /\ UNCHANGED <<word, startNode, node, wordName, cs, pc>>

NextText ==
  \/ InputText
  \/ ReadWord
  \/ Stage1
  \/ CompileWord
  \/ Stage2
  \/ Exec
  \/ Finish

SpecText == Init /\ [][NextText]_vars

\* no text is twice in the list
NoDup(sl) == \A i, j \in 1..Len(sl) : sl[i] = sl[j] => i = j

\* the list has its entries of before, in their places, and at most one more
Grown(sl, sl2) ==
  \/ sl2 = sl
  \/ /\ Len(sl2) = Len(sl) + 1
     /\ SubSeq(sl2, 1, Len(sl)) = sl

\* the text between the blank after a ." that ends at e and the next quote
\* of the line
ClosingQuote(e) == SkipToQuote(buffer, e + 1, b_end)

\* the handle h is that of the text from e on: of the entry the list had for
\* it, and then the list is as before, or else of one new entry
Interned(e, h) ==
  LET text == Tok(buffer, e + 1, ClosingQuote(e))
  IN  /\ h \in 1..Len(s_list')
      /\ s_list'[h] = text
      /\ IF \E k \in 1..Len(s_list) : s_list[k] = text
         THEN s_list' = s_list
         ELSE s_list' = Append(s_list, text)

\* the end of the word that a body's next read finds
NextWordEnd == SkipWord(buffer, SkipBlanks(buffer, idx, b_end) + 1, b_end)

\* C14: the string list never holds a text twice and never loses one; a ."
\* whose text the list holds gets the handle of that entry and adds nothing,
\* any other ." adds exactly one entry, its text
C14_TextsInterned ==
  [][/\ NoDup(s_list')
     /\ Grown(s_list, s_list')
     /\ (/\ pc = "stage1"
         /\ word.type = "PRINT_S"
         /\ ClosingQuote(idx) < b_end) => Interned(idx, word'.wa)
     /\ (/\ pc = "compile"
         /\ NewWordType = "PRINT_S"
         /\ ClosingQuote(NextWordEnd) < b_end) =>
          Interned(NextWordEnd, heap'[Len(heap')].wa)]_vars

\* the second ." AB" of a line has got the handle of the first
C14_Witness ==
  /\ pc = "stage2"
  /\ word.type = "PRINT_S"
  /\ word.wa = 1
  /\ s_list = << <<"A", "B">> >>
  /\ idx = 13

\* the word that the next read finds, when the line has one left
NextWordStart == SkipBlanks(buffer, b_idx, b_end)

NextWord == Tok(buffer, NextWordStart, SkipWord(buffer, NextWordStart + 1, b_end))

\* an optional - and one digit or more
IsIntLiteral(t) ==
  LET digits == IF t # <<>> /\ Head(t) = "-" THEN Tail(t) ELSE t
  IN  /\ digits # <<>>
      /\ \A k \in 1..Len(digits) : isdigit(digits[k])

RECURSIVE DecVal(_)
DecVal(digits) ==
  IF digits = <<>> THEN 0
  ELSE 10 * DecVal(SubSeq(digits, 1, Len(digits) - 1))
       + DigitVal(digits[Len(digits)])

IntLiteralVal(t) ==
  IF Head(t) = "-" THEN Wrap16(0 - DecVal(Tail(t))) ELSE Wrap16(DecVal(t))

\* the start nodes of the dictionary's words named t
DefinedAs(t) ==
  {wordList[k].startNode : k \in {j \in 1..Len(wordList) :
                                    wordList[j].wordName = t}}

\* the type of the built in word spelled t
BuiltInAs(t) ==
  {BuiltIns[k][2] : k \in {j \in 1..Len(BuiltIns) : BuiltIns[j][1] = t}}

\* what the word t resolves to: w is the word, e the fault
ResolvedInOrder(t, w, e) ==
  IF DefinedAs(t) # {}
  THEN e = NO_ERROR /\ w.type = "DEFINED_WORD" /\ w.wa \in DefinedAs(t)
  ELSE IF IsIntLiteral(t)
  THEN e = NO_ERROR /\ w.type = "INTEGER" /\ w.wa = IntLiteralVal(t)
  ELSE IF BuiltInAs(t) # {}
  THEN e # UNRECOGNIZED_WORD /\ w.type \in BuiltInAs(t)
  ELSE e = UNRECOGNIZED_WORD

\* the word that the next read of a body finds, when the line has one left
NextBodyStart == SkipBlanks(buffer, idx, b_end)

NextBodyWord == Tok(buffer, NextBodyStart, NextWordEnd)

\* C15: a word of the line or of a body resolves as the dictionary's word of its name when there is
\* one, whatever the name spells; else as an integer when it is an optional
\* - and digits; else as the built in word of its name; else it raises
\* UNRECOGNIZED_WORD
C15_ResolutionOrder ==
  [][/\ (pc = "read" /\ NextWordStart < b_end) =>
          /\ ResolvedInOrder(NextWord, word', errorCode')
          /\ errorCode' \in {NO_ERROR, UNRECOGNIZED_WORD}
     /\ (pc = "compile" /\ NextBodyStart < b_end) =>
          ResolvedInOrder(NextBodyWord, heap'[Len(heap')], errorCode')]_vars

\* the word 5 of the line has resolved as the definition named 5
C15_Witness ==
  /\ pc = "stage1"
  /\ Tok(buffer, b_idx, idx) = <<"5">>
  /\ word.type = "DEFINED_WORD"
  /\ errorCode = NO_ERROR

\* the step reads a word in the way of expectWord: the name after a :, or
\* a word of the body
Expects == pc = "compile" \/ (pc = "stage1" /\ word.type = "COLON")

\* C16: a read of the name or of a body word that finds blanks only, or
\* nothing, up to the end of the line raises EXPECTED_WORD; the word it
\* gives starts before the end of the line; it reads no new line
C16_ExpectedWordAtEndOfLine ==
  [][Expects =>
       /\ NextBodyStart >= b_end => errorCode' = EXPECTED_WORD
       /\ errorCode' = NO_ERROR => b_idx' < b_end
       /\ buffer' = buffer
       /\ nread' = nread]_vars

\* C17: a fault leaves idx right after the word that raised it: the word the
\* driver read, or the word read into the body, and the end of the line when
\* a word or a closing quote was missing; running a word moves nothing.
\* After a fault the driver reads on from there, and after
\* RECURSIVE_WORD_DEFINITION from the end of the line
C17_ResumesAfterFaultingWord ==
  [][/\ (pc = "read" /\ NextWordStart < b_end) =>
          idx' = SkipWord(buffer, NextWordStart + 1, b_end)
     /\ (pc = "stage1" /\ errorCode' # NO_ERROR) =>
          IF errorCode' \in {EXPECTED_WORD, EXPECTED_QUOTE}
          THEN idx' >= b_end
          ELSE idx' = idx
     /\ (pc = "compile" /\ errorCode' # NO_ERROR) =>
          IF errorCode' \in {EXPECTED_WORD, EXPECTED_QUOTE}
          THEN idx' >= b_end
          ELSE idx' = NextWordEnd
     /\ pc \in {"stage2", "exec"} => idx' = idx /\ b_end' = b_end
     /\ (pc = "finish" /\ errorCode # NO_ERROR) =>
          /\ pc' = "read"
          /\ b_end' = b_end
          /\ b_idx' = IF errorCode = RECURSIVE_WORD_DEFINITION THEN b_end
                      ELSE idx]_vars

\* : X : Y ; 5 has raised RECURSIVE_WORD_DEFINITION at its second : and the
\* driver is at the end of the line
C17_Witness ==
  /\ pc = "read"
  /\ Tok(buffer, 0, 5) = <<":", " ", "X", " ", ":">>
  /\ b_end = 11
  /\ b_idx = b_end
  /\ out # <<>>
  /\ out[Len(out)] = ErrorMessages[RECURSIVE_WORD_DEFINITION]

(***************************************************************************)
(* loop() runs on: the driver that has left the inner while (true) always  *)
(* reaches the end of the turn.                                            *)
(***************************************************************************)
SpecTextLive == SpecText /\ WF_vars(Finish)

\* C18: a fault is met at the end of a turn only, and the driver that meets
\* it clears the fault and inWordDefinition and reads again; it always gets
\* that far; whenever it reads, errorCode is NO_ERROR and inWordDefinition
\* is FALSE
C18_FaultsReturnToRead ==
  /\ [](errorCode # NO_ERROR => pc = "finish" /\ ENABLED Finish)
  /\ [][errorCode # NO_ERROR =>
          /\ pc' = "read"
          /\ errorCode' = NO_ERROR
          /\ ~inWordDefinition']_vars
  /\ [](pc = "read" => errorCode = NO_ERROR /\ ~inWordDefinition)
  /\ (errorCode # NO_ERROR) ~> (pc = "read" /\ ~inWordDefinition)

\* the driver reads again after the : that found no name; its message is
\* out and inWordDefinition is FALSE
C18_Witness ==
  /\ pc = "read"
  /\ b_end = 1
  /\ buffer[0] = ":"
  /\ b_idx = 1
  /\ out # <<>>
  /\ out[Len(out)] = ErrorMessages[EXPECTED_WORD]
  /\ ~inWordDefinition

(***************************************************************************)
(* A fourth input: definitions with conditionals, plain and nested, and    *)
(* the flags to run them with.                                             *)
(***************************************************************************)
MaxCond == 2

CondLines ==
  { Chars(": T IF 1 ELSE IF 2 THEN 3 THEN ;"),
    Chars(": U IF 1 ELSE 2 THEN 4 ;"),
    Chars(": V IF 1 THEN 2 ;"),
    Chars(": W IF IF 1 THEN 2 ELSE 3 THEN ;"),
    Chars("1 T 0 0 T"),
    Chars("1 U 0 U"),
    Chars("0 V 1 V"),
    Chars("1 1 W 0 W"),
    Chars(": A 1 ; : B IF A 2 THEN 3 ; 1 B"),
    Chars(": R 1 R ; R") }

InputCond ==
  /\ pc = "read"
  /\ b_idx >= b_end
  /\ nread < MaxCond
  /\ \E line \in CondLines : Commit(input(Cur, line))
  /\ nread' = nread + 1
  /\ UNCHANGED <<word, startNode, node, wordName, cs, pc>>

NextCond ==
  \/ InputCond
  \/ ReadWord
  \/ Stage1
  \/ CompileWord
  \/ Stage2
  \/ Exec
  \/ Finish

SpecCond == Init /\ [][NextCond]_vars

\* the places in the body c, held in h, of the nodes of a type that have no
\* target yet
Unresolved(h, c, type) ==
  {k \in 1..(Len(c) - 1) : h[c[k]].type = type /\ h[c[k]].wa = NULL}

Last(places) == CHOOSE k \in places : \A j \in places : k >= j

First(places) == CHOOSE k \in places : \A j \in places : k <= j

\* the THEN at the end of the body c binds the unresolved IF nearest before
\* it; the IF's target is the node after the nearest unresolved ELSE that
\* lies after that IF, or the THEN when there is none; what lies before the
\* IF stays as it is
BindsNearest(c) ==
  LET if == Last(Unresolved(heap, c, "IF"))
      elses == {k \in Unresolved(heap, c, "ELSE") : k > if}
  IN  /\ heap'[c[if]].wa = IF elses = {} THEN c[Len(c)]
                           ELSE c[Last(elses) + 1]
      /\ \A k \in elses : k = Last(elses) => heap'[c[k]].wa = c[Len(c)]
      /\ \A k \in 1..(if - 1) : heap'[c[k]].wa = heap[c[k]].wa

\* C19: a THEN read into a body binds the nearest unresolved IF before it
\* and an unresolved ELSE after that IF, never one before it
C19_ThenBindsElseAfterIf ==
  [][(/\ pc = "compile"
      /\ NewWordType = "THEN"
      /\ errorCode' = NO_ERROR) =>
       BindsNearest(Chain(heap', startNode'))]_vars

\* the body of the dictionary that holds the node n
BodyOf(n) ==
  LET bodies == {Chain(heap, wordList[k].startNode) : k \in 1..Len(wordList)}
  IN  CHOOSE c \in bodies : n \in Range(c)

Place(c, n) == CHOOSE k \in 1..Len(c) : c[k] = n

\* IFs less THENs from p to q, both left out
Depth(c, p, q) ==
  Cardinality({k \in (p + 1)..(q - 1) : heap[c[k]].type = "IF"})
  - Cardinality({k \in (p + 1)..(q - 1) : heap[c[k]].type = "THEN"})

\* the places of the ELSE and THEN that close what is open at p
Closing(c, p, type) ==
  {q \in (p + 1)..Len(c) : heap[c[q]].type = type /\ Depth(c, p, q) = 0}

\* where the IF at p goes on a flag of 0: after its ELSE, or at its THEN
FalseBranch(c, p) ==
  LET then == First(Closing(c, p, "THEN"))
      elses == {q \in Closing(c, p, "ELSE") : q < then}
  IN  IF elses = {} THEN c[then] ELSE c[First(elses) + 1]

\* the innermost loop is at a node of a body of the dictionary
AtNode ==
  /\ pc = "exec"
  /\ cs # <<>>
  /\ cs[Len(cs)].node \in DictNodes \cap live

\* it is about to run an IF that has its THEN
AtIf ==
  /\ AtNode
  /\ heap[cs[Len(cs)].node].type = "IF"
  /\ top >= 1
  /\ Closing(BodyOf(cs[Len(cs)].node),
             Place(BodyOf(cs[Len(cs)].node), cs[Len(cs)].node), "THEN") # {}

\* the loop of an IF has come to the end of a branch
AtBranchEnd ==
  /\ AtNode
  /\ cs[Len(cs)].kind = "IF"
  /\ heap[cs[Len(cs)].node].type \in {"ELSE", "THEN"}

\* the THEN that ends the conditional whose branch ends at node n
EndOf(c, n) ==
  IF heap[n].type = "THEN" THEN n
  ELSE c[First(Closing(c, Place(c, n), "THEN"))]

\* C20: an IF pops the flag and goes on in its first branch when the flag
\* is not 0, else in its second, or at its THEN when it has none; at the end
\* of either branch the body goes on after the THEN of that IF
C20_OneBranchRuns ==
  [][/\ AtIf =>
          /\ top' = top - 1
          /\ Len(cs') = Len(cs) + 1
          /\ cs'[Len(cs')].node =
               IF stack[top - 1] # 0 THEN heap[cs[Len(cs)].node].next
               ELSE FalseBranch(BodyOf(cs[Len(cs)].node),
                                Place(BodyOf(cs[Len(cs)].node),
                                      cs[Len(cs)].node))
     /\ AtBranchEnd =>
          /\ Len(cs') = Len(cs) - 1
          /\ cs'[Len(cs')].node =
               heap[EndOf(BodyOf(cs[Len(cs)].node), cs[Len(cs)].node)].next
    ]_vars

\* C21: no run of a body ends with NODE_NULL_IN_IF, and none leaves the
\* body through a NULL node while the loop of an IF looks for ELSE or THEN
C21_NoNullNodeInIf ==
  /\ errorCode # NODE_NULL_IN_IF
  /\ pc = "exec" => ~ReadsNull(cs)

(***************************************************************************)
(* A fifth input: definitions with loops, nested and run again and again,  *)
(* and the word I inside and outside of them.                              *)
(***************************************************************************)
MaxLoop == 2

LoopLines ==
  { Chars(": N 2 0 DO 2 0 DO I . LOOP I . LOOP ; N"),
    Chars(": L 1 0 DO LOOP ; L L L L L L L L L L L"),
    Chars(": G 1 0 DO ; : X I ; I"),
    Chars(": Y 1 0 DO LOOP I ;"),
    Chars(": Z 2 0 DO 1 IF I . THEN LOOP ; Z"),
    Chars("5 7 L .S"),
    Chars("1 .S 5"),
    Chars(": F 1 1 1 1 1 1 1 1 1 1 ; F F F F F"),
    Chars("TUCK SWAP ROT 1 ROLL 2 PICK 9 DUP") }

InputLoop ==
  /\ pc = "read"
  /\ b_idx >= b_end
  /\ nread < MaxLoop
  /\ \E line \in LoopLines : Commit(input(Cur, line))
  /\ nread' = nread + 1
  /\ UNCHANGED <<word, startNode, node, wordName, cs, pc>>

NextLoop ==
  \/ InputLoop
  \/ ReadWord
  \/ Stage1
  \/ CompileWord
  \/ Stage2
  \/ Exec
  \/ Finish

SpecLoop == Init /\ [][NextLoop]_vars

\* the body c is ol os DO il is DO I . LOOP I . LOOP ; with os < ol and
\* is < il
NestedLoops(c) ==
  /\ [k \in 1..Len(c) |-> heap[c[k]].type] =
       <<"INTEGER", "INTEGER", "DO", "INTEGER", "INTEGER", "DO", "I", "DOT",
         "LOOP", "I", "DOT", "LOOP", "SEMICOLON">>
  /\ heap[c[2]].wa < heap[c[1]].wa
  /\ heap[c[5]].wa < heap[c[4]].wa

\* what . prints for the counters from lo up to hi - 1
RECURSIVE Counted(_, _)
Counted(lo, hi) ==
  IF lo >= hi THEN <<>> ELSE Dec(lo) \o <<" ">> \o Counted(lo + 1, hi)

\* what the nested loops print: each turn of the outer loop, from o on, the
\* counters of the inner loop and then its own
RECURSIVE NestedPrints(_, _, _, _)
NestedPrints(o, ol, is, il) ==
  IF o >= ol THEN <<>>
  ELSE Counted(is, il) \o Dec(o) \o <<" ">> \o NestedPrints(o + 1, ol, is, il)

IsPrefix(s, t) == Len(s) <= Len(t) /\ s = SubSeq(t, 1, Len(s))

\* the first line typed has defined nested loops and called them
RunsNested ==
  /\ nread = 1
  /\ pc \in {"exec", "finish"}
  /\ word.type = "DEFINED_WORD"
  /\ word.wa \in live
  /\ NestedLoops(Chain(heap, word.wa))

\* C22: nested loops run the outer body ol - os times and the inner body
\* il - is times in each, and the I after the inner loop reads the outer
\* counter: the word prints just that and ends without a fault
C22_NestedLoopsCount ==
  RunsNested =>
    LET c == Chain(heap, word.wa)
        prints == NestedPrints(heap[c[2]].wa, heap[c[1]].wa,
                               heap[c[5]].wa, heap[c[4]].wa)
    IN  /\ IsPrefix(out, prints)
        /\ pc = "finish" => errorCode = NO_ERROR /\ out = prints

\* the innermost loop is about to run a DO that finds its two operands
AtDo ==
  /\ AtNode
  /\ heap[cs[Len(cs)].node].type = "DO"
  /\ top >= 2

\* C23: idxTop never goes down; a DO that finds room adds one frame to
\* idxStack and nothing else does; once IDX_STACK_SIZE cells are in use
\* they stay in use, and every DO raises STACK_OVERFLOW after it has taken
\* its two operands off the data stack
C23_LoopFramesStay ==
  /\ [][idxTop' >= idxTop]_vars
  /\ [][idxTop' # idxTop => AtDo /\ idxTop' = idxTop + 2]_vars
  /\ [][AtDo =>
          IF idxTop = IDX_STACK_SIZE
          THEN /\ errorCode' = STACK_OVERFLOW
               /\ top' = top - 2
               /\ idxTop' = idxTop
          ELSE /\ errorCode' = NO_ERROR
               /\ top' = top - 2
               /\ idxTop' = idxTop + 2]_vars
  /\ [](idxTop = IDX_STACK_SIZE => [](idxTop = IDX_STACK_SIZE))

\* the eleventh run of : L 1 0 DO LOOP ; has ended at its DO: idxStack is
\* full and the 1 and the 0 are off the data stack
C23_Witness ==
  /\ pc = "finish"
  /\ errorCode = STACK_OVERFLOW
  /\ idxTop = IDX_STACK_SIZE
  /\ top = 0
  /\ word.type = "DEFINED_WORD"
  /\ idx = b_end

\* the body c read so far holds a DO that no LOOP has closed
OpenDo(c) ==
  Cardinality({k \in 1..Len(c) : heap[c[k]].type = "DO"})
  > Cardinality({k \in 1..Len(c) : heap[c[k]].type = "LOOP"})

\* C24: an I read into a body compiles when a DO of that body is open and
\* raises INVALID_CONSTRUCTION when none is; an I outside a definition
\* raises OUTSIDE_WORD_DEFINITION
C24_IOnlyInsideOpenDo ==
  [][/\ (pc = "compile" /\ NewWordType = "I") =>
          IF OpenDo(Chain(heap, startNode))
          THEN errorCode' = NO_ERROR
          ELSE errorCode' = INVALID_CONSTRUCTION
     /\ (pc = "stage1" /\ word.type = "I") =>
          errorCode' = OUTSIDE_WORD_DEFINITION]_vars

\* the driver is about to run ROLL or PICK with an index that is not
\* negative on top
RollsOrPicks ==
  /\ pc = "stage2"
  /\ word.type \in {"ROLL", "PICK"}
  /\ top >= 1
  /\ stack[top - 1] >= 0

\* with below the stack under the index n: ROLL has moved the value at
\* depth n of below to the top, PICK has put a copy of it on top
Rolled(below, n) ==
  /\ errorCode' = NO_ERROR
  /\ word.type = "ROLL" =>
       Data(stack', top') = Append(Without(below, n), below[Len(below) - n])
  /\ word.type = "PICK" =>
       Data(stack', top') = Append(below, below[Len(below) - n])

\* C25: ROLL and PICK take the index n off; with n + 1 values or more under
\* it ROLL moves the value at depth n to the top and PICK copies it there,
\* and all the others stay; with fewer both raise STACK_UNDERFLOW
C25_RollAndPick ==
  [][RollsOrPicks =>
       IF top - 1 >= stack[top - 1] + 1
       THEN Rolled(Data(stack, top - 1), stack[top - 1])
       ELSE errorCode' = STACK_UNDERFLOW]_vars

\* -7 1 1 ROLL has left 1 -7
C25_Witness ==
  /\ pc = "finish"
  /\ word.type = "ROLL"
  /\ errorCode = NO_ERROR
  /\ top = 2
  /\ stack[0] = 1
  /\ stack[1] = -7

\* the driver is about to run a printing word
Prints == pc = "stage2" /\ word.type \in {"DOT", "PRINT_STACK"}

\* C26: a . or .S run by the driver leaves the rest of the line, from the
\* end of the printing word on, as it was typed
C26_PrintKeepsRestOfLine ==
  [][Prints =>
       /\ b_end' = b_end
       /\ \A k \in idx..(b_end - 1) : buffer'[k] = buffer[k]]_vars

\* the operators that take their operands from the data stack
Operators ==
  PostfixTypes \ {"INTEGER", "MINUS", "DIVIDE", "MOD", "SLASH_MOD", "DROP",
                  "MAX", "MIN", "PICK", "ROLL"}

\* C27: an operator that raises STACK_UNDERFLOW leaves the data stack as it
\* found it: as deep, and with the same values
C27_UnderflowKeepsStack ==
  [][(/\ pc = "stage2"
      /\ word.type \in Operators
      /\ errorCode' = STACK_UNDERFLOW) =>
       /\ top' = top
       /\ Data(stack', top') = Data(stack, top)]_vars

(***************************************************************************)
(* The places of the arrays that a word uses without a test of both ends   *)
(* by the function that uses them, when it runs with top = t and raises    *)
(* no fault: poke() tests the lower end only, roll() and the loop of .S    *)
(* index stack[] themselves, defPeek() tests defTop against STACK_SIZE,    *)
(* idxPeek() tests the lower end only.                                     *)
(***************************************************************************)
StackPlaces(type, stk, t) ==
  CASE type = "SWAP" -> {t - 2, t - 1}
    [] type = "ROT" -> {t - 3, t - 2, t - 1}
    [] type = "TUCK" -> {t - 2, t - 1}
    [] type = "ROLL" -> (t - 2 - stk[t - 1])..(t - 2)
    [] type = "PRINT_STACK" -> 0..(t - 1)
    [] OTHER -> {}

DefPlaces(type, t) ==
  IF type \in {"ELSE", "THEN", "LOOP"} THEN {t - 1} ELSE {}

IdxPlaces(type, t) ==
  CASE type = "LOOP" -> {t - 1, t - 2}
    [] type = "I" -> {t - 1}
    [] OTHER -> {}

\* the type of the word that the step runs, and of the word that the step
\* reads into a body
RunType ==
  IF pc = "stage2" THEN word.type
  ELSE IF AtNode THEN heap[cs[Len(cs)].node].type
  ELSE "none"

SpecCondLive == SpecCond /\ WF_vars(Exec)

\* no definition has been replaced: every body that was closed is in use
NoRedefinition ==
  \A n \in 1..Len(heap) : heap[n].type = "SEMICOLON" => n \in live

\* no body of the dictionary holds a DO or a LOOP
NoLoops == \A n \in DictNodes : heap[n].type \notin {"DO", "LOOP"}

\* every reference in a body of the dictionary is to the body of a word of
\* the dictionary that was read before the body itself
RefersBack ==
  \A k \in 1..Len(wordList) :
    \A n \in Body(wordList[k].startNode) :
      heap[n].type = "DEFINED_WORD" =>
        /\ heap[n].wa < wordList[k].startNode
        /\ \E j \in 1..Len(wordList) : wordList[j].startNode = heap[n].wa

====
